---------------------------- MODULE Spec2Model ----------------------------
(***************************************************************************)
(* A model of the mental-health chatbot: the crisis handler, the sentiment *)
(* analyzer's crisis check, the response orchestrator                      *)
(* (HybridMentalHealthChatbot.process_user_message), the persistent store  *)
(* (UserManager) and the in-memory UserSession.                            *)
(*                                                                         *)
(* Conventions.                                                            *)
(*  - Text is a sequence of one-character strings, so that Python's        *)
(*    substring test `kw in text` and str.lower() are computed, not        *)
(*    assumed.  A message value is a record [isstr, chars]: isstr = FALSE  *)
(*    is Python's None.                                                    *)
(*  - Real numbers (sentiment scores, severities, confidences) are kept in *)
(*    hundredths: 0.9 is 90, -0.7 is -70.  Every value used is one whose   *)
(*    float arithmetic in the source gives the same comparisons.           *)
(***************************************************************************)
EXTENDS Integers, Sequences, FiniteSets, TLC

VARIABLES
  \* --- a pure function under check: its arguments and its result
  pure_args, pure_result,
  \* --- HybridMentalHealthChatbot.process_user_message: one call in flight; steps
  \* and rows_at_call record what the call has executed and the number of
  \* conversations rows it found
  pc, frame, steps, t5_calls, returned, rows_at_call,
  \* --- UserManager: the four tables, the clock and the last call's result
  users, conversations, mood_tracking, chat_sessions, clock, db_call,
  \* --- UserSession
  conversation_history, mood_log, initial_mood, current_mood, updated_at,
  session_active, session_call,
  \* --- SessionManager: the session table, the last call's result, and the
  \* requests in flight when calls run concurrently
  sessions, manager_call, threads,
  \* --- what the calls made so far answered, kept for the properties: the ids
  \* create_session gave out and the ids end_session and delete_session
  \* answered True for; what end_chat_session last returned for each chat
  \* session, None included (last_end), and its last dict (last_answer)
  lifecycle

vars == << pure_args, pure_result, pc, frame, steps, t5_calls, returned,
           rows_at_call,
           users, conversations, mood_tracking, chat_sessions, clock, db_call,
           conversation_history, mood_log, initial_mood, current_mood,
           updated_at, session_active, session_call,
           sessions, manager_call, threads, lifecycle >>

pure_vars == << pure_args, pure_result >>
chat_vars == << pc, frame, steps, t5_calls, returned, rows_at_call >>
db_vars == << users, conversations, mood_tracking, chat_sessions, clock, db_call >>
session_vars == << conversation_history, mood_log, initial_mood, current_mood,
                   updated_at, session_active, session_call >>
manager_vars == << sessions, manager_call, threads, lifecycle >>

-----------------------------------------------------------------------------
(* Text *)

Min(a, b) == IF a <= b THEN a ELSE b
Max(a, b) == IF a >= b THEN a ELSE b

\* str.lower() on the characters the messages use
LowerChar(c) ==
  CASE c = "A" -> "a" [] c = "B" -> "b" [] c = "C" -> "c" [] c = "D" -> "d"
    [] c = "E" -> "e" [] c = "F" -> "f" [] c = "G" -> "g" [] c = "H" -> "h"
    [] c = "I" -> "i" [] c = "J" -> "j" [] c = "K" -> "k" [] c = "L" -> "l"
    [] c = "M" -> "m" [] c = "N" -> "n" [] c = "O" -> "o" [] c = "P" -> "p"
    [] c = "Q" -> "q" [] c = "R" -> "r" [] c = "S" -> "s" [] c = "T" -> "t"
    [] c = "U" -> "u" [] c = "V" -> "v" [] c = "W" -> "w" [] c = "X" -> "x"
    [] c = "Y" -> "y" [] c = "Z" -> "z" [] OTHER -> c

Lower(s) == [i \in 1..Len(s) |-> LowerChar(s[i])]

\* Python's `kw in text` on strings: kw occurs as a contiguous substring
Contains(text, kw) ==
  \E i \in 1..(Len(text) - Len(kw) + 1) : SubSeq(text, i, i + Len(kw) - 1) = kw

\* Python's str.strip() for the blank character
RECURSIVE LStrip(_)
LStrip(s) == IF s # <<>> /\ Head(s) = " " THEN LStrip(Tail(s)) ELSE s
RECURSIVE RStrip(_)
RStrip(s) ==
  IF s # <<>> /\ s[Len(s)] = " " THEN RStrip(SubSeq(s, 1, Len(s) - 1)) ELSE s
Strip(s) == RStrip(LStrip(s))

Str(chars) == [isstr |-> TRUE, chars |-> chars]
NoneValue == [isstr |-> FALSE, chars |-> <<>>]

-----------------------------------------------------------------------------
(* Keyword tables *)

\* hf_config.CRISIS_KEYWORDS: a list, in source order
CRISIS_KEYWORDS ==
  << <<"k","i","l","l"," ","m","y","s","e","l","f">>,
     <<"s","u","i","c","i","d","e">>,
     <<"w","a","n","t"," ","t","o"," ","d","i","e">>,
     <<"n","o"," ","p","o","i","n","t"," ","l","i","v","i","n","g">>,
     <<"e","n","d"," ","i","t"," ","a","l","l">>,
     <<"h","u","r","t"," ","m","y","s","e","l","f">>,
     <<"s","e","l","f"," ","h","a","r","m">>,
     <<"o","v","e","r","d","o","s","e">>,
     <<"j","u","m","p">>,
     <<"h","a","r","m">>,
     <<"d","e","a","t","h">>,
     <<"d","y","i","n","g">>,
     <<"d","e","a","d">> >>

\* MentalHealthKeywords.CRISIS_PHRASES
CRISIS_PHRASES ==
  << <<"i"," ","w","a","n","t"," ","t","o"," ","h","u","r","t"," ","m","y","s","e","l","f">>,
     <<"i"," ","w","a","n","t"," ","t","o"," ","d","i","e">>,
     <<"i","'","m"," ","s","u","i","c","i","d","a","l">>,
     <<"i"," ","a","m"," ","s","u","i","c","i","d","a","l">>,
     <<"s","u","i","c","i","d","a","l"," ","t","h","o","u","g","h","t","s">>,
     <<"s","u","i","c","i","d","e">>,
     <<"k","i","l","l"," ","m","y","s","e","l","f">>,
     <<"e","n","d"," ","m","y"," ","l","i","f","e">>,
     <<"n","o"," ","p","o","i","n","t"," ","l","i","v","i","n","g">>,
     <<"l","i","f","e"," ","n","o","t"," ","w","o","r","t","h"," ","l","i","v","i","n","g">>,
     <<"b","e","t","t","e","r"," ","o","f","f"," ","d","e","a","d">>,
     <<"d","o","n","'","t"," ","w","a","n","t"," ","t","o"," ","l","i","v","e">>,
     <<"w","i","s","h"," ","i"," ","w","a","s"," ","d","e","a","d">> >>

\* MentalHealthKeywords.SELF_HARM_KEYWORDS
SELF_HARM_KEYWORDS ==
  << <<"c","u","t","t","i","n","g"," ","m","y","s","e","l","f">>,
     <<"s","e","l","f","-","h","a","r","m">>,
     <<"s","e","l","f"," ","h","a","r","m">>,
     <<"o","v","e","r","d","o","s","e">>,
     <<"h","a","n","g","i","n","g">>,
     <<"j","u","m","p","i","n","g"," ","o","f","f">>,
     <<"d","r","o","w","n","i","n","g">>,
     <<"s","l","i","t","t","i","n","g"," ","w","r","i","s","t","s">>,
     <<"r","a","z","o","r"," ","b","l","a","d","e">>,
     <<"c","u","t","t","i","n","g">>,
     <<"h","a","r","m","i","n","g"," ","m","y","s","e","l","f">>,
     <<"h","u","r","t"," ","m","y","s","e","l","f">> >>

\* _extract_topic's topic_keywords, a dict in insertion order
topic_keywords ==
  << [topic |-> "exam", keywords |->
        << <<"e","x","a","m">>,
           <<"t","e","s","t">>,
           <<"q","u","i","z">>,
           <<"m","i","d","t","e","r","m">>,
           <<"f","i","n","a","l">>,
           <<"e","x","a","m"," ","s","c","o","r","e">>,
           <<"s","t","u","d","i","e","d">> >>],
     [topic |-> "job", keywords |->
        << <<"j","o","b">>,
           <<"w","o","r","k">>,
           <<"i","n","t","e","r","v","i","e","w">>,
           <<"b","o","s","s">>,
           <<"c","o","l","l","e","a","g","u","e">>,
           <<"p","r","o","m","o","t","i","o","n">>,
           <<"f","i","r","e","d">>,
           <<"r","e","s","i","g","n">>,
           <<"w","o","r","k","p","l","a","c","e">> >>],
     [topic |-> "relationship", keywords |->
        << <<"g","i","r","l","f","r","i","e","n","d">>,
           <<"b","o","y","f","r","i","e","n","d">>,
           <<"w","i","f","e">>,
           <<"h","u","s","b","a","n","d">>,
           <<"p","a","r","t","n","e","r">>,
           <<"s","p","o","u","s","e">>,
           <<"d","a","t","i","n","g">>,
           <<"b","r","e","a","k","u","p">>,
           <<"r","e","l","a","t","i","o","n","s","h","i","p">> >>],
     [topic |-> "family", keywords |->
        << <<"m","o","m">>,
           <<"d","a","d">>,
           <<"p","a","r","e","n","t">>,
           <<"m","o","t","h","e","r">>,
           <<"f","a","t","h","e","r">>,
           <<"s","i","b","l","i","n","g">>,
           <<"b","r","o","t","h","e","r">>,
           <<"s","i","s","t","e","r">>,
           <<"f","a","m","i","l","y">> >>],
     [topic |-> "health", keywords |->
        << <<"s","i","c","k">>,
           <<"i","l","l","n","e","s","s">>,
           <<"d","i","s","e","a","s","e">>,
           <<"p","a","i","n">>,
           <<"h","u","r","t">>,
           <<"d","o","c","t","o","r">>,
           <<"h","o","s","p","i","t","a","l">>,
           <<"h","e","a","l","t","h">> >>],
     [topic |-> "money", keywords |->
        << <<"m","o","n","e","y">>,
           <<"d","e","b","t">>,
           <<"f","i","n","a","n","c","i","a","l">>,
           <<"b","r","o","k","e">>,
           <<"b","i","l","l","s">>,
           <<"r","e","n","t">>,
           <<"m","o","r","t","g","a","g","e">> >>],
     [topic |-> "social", keywords |->
        << <<"f","r","i","e","n","d","s">>,
           <<"f","r","i","e","n","d">>,
           <<"l","o","n","e","l","y">>,
           <<"a","l","o","n","e">>,
           <<"s","o","c","i","a","l">>,
           <<"p","e","o","p","l","e">>,
           <<"c","o","m","m","u","n","i","t","y">> >>],
     [topic |-> "school", keywords |->
        << <<"s","c","h","o","o","l">>,
           <<"c","l","a","s","s">>,
           <<"g","r","a","d","e">>,
           <<"t","e","a","c","h","e","r">>,
           <<"h","o","m","e","w","o","r","k">>,
           <<"a","s","s","i","g","n","m","e","n","t">> >>] >>

\* _match_emotion_precisely's literal emotion words, in the order of its if-chain
emotion_words ==
  << [label |-> "anxiety", words |-> << <<"a","n","x","i","o","u","s">>, <<"a","n","x","i","e","t","y">> >>],
     [label |-> "sadness", words |-> << <<"s","a","d">>, <<"s","a","d","n","e","s","s">>, <<"d","e","p","r","e","s","s","e","d">> >>],
     [label |-> "anger", words |-> << <<"a","n","g","r","y">>, <<"f","r","u","s","t","r","a","t","e","d">> >>],
     [label |-> "fear", words |-> << <<"s","c","a","r","e","d">>, <<"a","f","r","a","i","d">>, <<"f","e","a","r">> >>],
     [label |-> "joy", words |-> << <<"h","a","p","p","y">>, <<"g","r","e","a","t">>, <<"e","x","c","i","t","e","d">> >>] >>

\* MentalHealthKeywords.STRESS_KEYWORDS
STRESS_KEYWORDS ==
  << <<"s","t","r","e","s","s","e","d">>,
     <<"a","n","x","i","o","u","s">>,
     <<"a","n","x","i","e","t","y">>,
     <<"w","o","r","r","i","e","d">>,
     <<"n","e","r","v","o","u","s">>,
     <<"o","v","e","r","w","h","e","l","m","e","d">>,
     <<"p","a","n","i","c">>,
     <<"p","a","n","i","c","k","i","n","g">>,
     <<"a","f","r","a","i","d">>,
     <<"s","c","a","r","e","d">>,
     <<"t","e","n","s","i","o","n">>,
     <<"t","e","n","s","e">>,
     <<"u","n","e","a","s","y">>,
     <<"a","g","i","t","a","t","e","d">>,
     <<"f","r","a","n","t","i","c">> >>

\* MentalHealthKeywords.DEPRESSION_KEYWORDS
DEPRESSION_KEYWORDS ==
  << <<"d","e","p","r","e","s","s","e","d">>,
     <<"d","e","p","r","e","s","s","i","o","n">>,
     <<"s","a","d">>,
     <<"s","a","d","n","e","s","s">>,
     <<"u","n","h","a","p","p","y">>,
     <<"h","o","p","e","l","e","s","s">>,
     <<"h","o","p","e","l","e","s","s","n","e","s","s">>,
     <<"w","o","r","t","h","l","e","s","s">>,
     <<"e","m","p","t","y">>,
     <<"m","e","a","n","i","n","g","l","e","s","s">>,
     <<"l","o","s","t">>,
     <<"g","l","o","o","m","y">>,
     <<"m","e","l","a","n","c","h","o","l","y">>,
     <<"m","i","s","e","r","a","b","l","e">>,
     <<"d","o","w","n">>,
     <<"l","o","w">> >>

\* MentalHealthKeywords.POSITIVE_KEYWORDS
POSITIVE_KEYWORDS ==
  << <<"h","a","p","p","y">>,
     <<"j","o","y","f","u","l">>,
     <<"g","o","o","d">>,
     <<"g","r","e","a","t">>,
     <<"w","o","n","d","e","r","f","u","l">>,
     <<"a","m","a","z","i","n","g">>,
     <<"g","r","a","t","e","f","u","l">>,
     <<"b","l","e","s","s","e","d">>,
     <<"h","o","p","e","f","u","l">>,
     <<"c","o","n","f","i","d","e","n","t">>,
     <<"p","e","a","c","e","f","u","l">>,
     <<"e","x","c","i","t","e","d">>,
     <<"p","r","o","u","d">>,
     <<"l","o","v","e","d">>,
     <<"s","u","p","p","o","r","t","e","d">> >>

-----------------------------------------------------------------------------
(* Inputs *)

\* The messages the operations are driven with.  Between them they hit: the
\* analyzer's phrase list only, both crisis checks, the handler's keyword list
\* only, the analyzer's self-harm list only, a topic and an emotion word, none
\* of the tables, and None.
msg_suicidal == <<"I","'","m"," ","s","u","i","c","i","d","a","l">>  \* I'm suicidal
msg_want_to_die == <<"I"," ","w","a","n","t"," ","t","o"," ","d","i","e">>  \* I want to die
msg_jump == <<"J","u","m","p"," ","r","o","p","e"," ","i","s"," ","g","r","e","a","t">>  \* Jump rope is great
msg_cutting == <<"c","u","t","t","i","n","g"," ","m","y","s","e","l","f">>  \* cutting myself
msg_sad_exam == <<"S","o"," ","s","a","d",","," ","m","y"," ","e","x","a","m">>  \* So sad, my exam
msg_hello == <<"H","e","l","l","o">>  \* Hello
Messages ==
  { Str(msg_suicidal), Str(msg_want_to_die), Str(msg_jump), Str(msg_cutting),
    Str(msg_sad_exam), Str(msg_hello), NoneValue }

UserIds == {"u1", "u2"}

\* Combined sentiment scores, in hundredths, either side of the -0.7 boost line
Scores == {-100, -75, -70, 0, 60}

\* What analyze_sentiment is called with beyond the messages above: the empty
\* string, a value that is not a string, a blank string, a keyword of each of
\* the four sets inside a longer word, and a keyword in capitals before a blank.
msg_empty == <<>>
msg_number == [isstr |-> FALSE, chars |-> <<"4","2">>]  \* 42
msg_blank == <<" "," ">>
msg_changing == <<"I"," ","a","m"," ","c","h","a","n","g","i","n","g"," ","j","o","b","s">>  \* I am changing jobs
msg_slow == <<"S","l","o","w",","," ","i","n","t","e","n","s","e"," ","g","o","o","d","n","e","s","s">>  \* Slow, intense goodness
msg_anxious == <<"F","e","e","l","i","n","g"," ","A","N","X","I","O","U","S"," ">>  \* Feeling ANXIOUS
AnalyzerInputs ==
  Messages \cup { Str(msg_empty), msg_number, Str(msg_blank), Str(msg_changing),
                  Str(msg_slow), Str(msg_anxious) }

-----------------------------------------------------------------------------
(* CrisisHandler (src/chatbot/crisis_handler.py) *)

crisis_threshold == 80

\* The keyword table as the handler holds it: the list the program ships, or a
\* dict keyword -> severity (the handler accepts both shapes)
ListTable(kws) == [isdict |-> FALSE,
                   entries |-> [i \in 1..Len(kws) |-> [keyword |-> kws[i], severity |-> 0]]]
shipped_table == ListTable(CRISIS_KEYWORDS)

\* A dict-shaped table: weights either side of the threshold
weighted_table ==
  [isdict |-> TRUE,
   entries |-> << [keyword |-> <<"s","a","d">>, severity |-> 50],
                  [keyword |-> <<"j","u","m","p">>, severity |-> 75],
                  [keyword |-> <<"w","a","n","t"," ","t","o"," ","d","i","e">>, severity |-> 95],
                  [keyword |-> <<"d","i","e">>, severity |-> 85],
                  [keyword |-> <<"e","x","a","m">>, severity |-> 60] >>]

\* The two for-loops of detect_crisis, from entry i on: the running
\* (found_keywords, max_severity)
RECURSIVE ScanDict(_, _, _, _, _)
ScanDict(entries, i, text_lower, found, max_severity) ==
  IF i > Len(entries) THEN [found |-> found, max_severity |-> max_severity]
  ELSE IF Contains(text_lower, entries[i].keyword)
       THEN ScanDict(entries, i + 1, text_lower,
                     Append(found, << entries[i].keyword, entries[i].severity >>),
                     Max(max_severity, entries[i].severity))
       ELSE ScanDict(entries, i + 1, text_lower, found, max_severity)

RECURSIVE ScanList(_, _, _, _, _)
ScanList(entries, i, text_lower, found, max_severity) ==
  IF i > Len(entries) THEN [found |-> found, max_severity |-> max_severity]
  ELSE IF Contains(text_lower, entries[i].keyword)
       THEN ScanList(entries, i + 1, text_lower,
                     Append(found, << entries[i].keyword, 90 >>), 90)
       ELSE ScanList(entries, i + 1, text_lower, found, max_severity)

\* detect_crisis with the sentiment boost applied whether or not a keyword matched
detect_crisis_table_always_boosts(table, text, sentiment_score) ==
  LET text_lower == Lower(text)
      scan == IF table.isdict
              THEN ScanDict(table.entries, 1, text_lower, <<>>, 0)
              ELSE ScanList(table.entries, 1, text_lower, <<>>, 0)
      max_severity == IF sentiment_score < -70
                      THEN Min(100, scan.max_severity + 10)
                      ELSE scan.max_severity
  IN  [is_crisis |-> max_severity >= crisis_threshold,
       severity |-> max_severity,
       keywords_found |-> scan.found]

\* CrisisHandler.detect_crisis(text, sentiment_score), text a str
detect_crisis_table(table, text, sentiment_score) ==
  LET text_lower == Lower(text)
      scan == IF table.isdict
              THEN ScanDict(table.entries, 1, text_lower, <<>>, 0)
              ELSE ScanList(table.entries, 1, text_lower, <<>>, 0)
      max_severity == IF sentiment_score < -70 /\ scan.found # <<>>
                      THEN Min(100, scan.max_severity + 10)
                      ELSE scan.max_severity
  IN  [is_crisis |-> max_severity >= crisis_threshold,
       severity |-> max_severity,
       keywords_found |-> scan.found]

detect_crisis(text, sentiment_score) ==
  detect_crisis_table(shipped_table, text, sentiment_score)

\* The lines of the crisis template, without the emoji
hotline_line == "- Call 988 (Suicide & Crisis Lifeline)"

CrisisTemplate(urgency) ==
  << "",
     urgency,
     "",
     "I'm genuinely concerned about what you've shared. You don't have to face this alone.",
     "",
     "PLEASE REACH OUT TO SOMEONE:",
     hotline_line,
     "- Text \"HELLO\" to 741741 (Crisis Text Line)",
     "- Go to nearest emergency room",
     "- Call 911 if in immediate danger",
     "",
     "I'm here to listen and support you through this.",
     "" >>

\* format_crisis_response with the first tier starting above 0.90
format_crisis_response_above_090(severity_level) ==
  IF severity_level > 90 THEN CrisisTemplate("IMMEDIATE SUPPORT NEEDED")
  ELSE IF severity_level >= 85 THEN CrisisTemplate("URGENT SUPPORT RECOMMENDED")
  ELSE CrisisTemplate("SUPPORT AVAILABLE")

\* CrisisHandler.format_crisis_response(severity_level, keywords_found)
format_crisis_response(severity_level) ==
  IF severity_level >= 90 THEN CrisisTemplate("IMMEDIATE SUPPORT NEEDED")
  ELSE IF severity_level >= 85 THEN CrisisTemplate("URGENT SUPPORT RECOMMENDED")
  ELSE CrisisTemplate("SUPPORT AVAILABLE")

\* CrisisHandler.get_crisis_response(text, sentiment_score): <<>> is None
get_crisis_response_table(table, text, sentiment_score) ==
  LET d == detect_crisis_table(table, text, sentiment_score)
  IN  IF d.is_crisis
      THEN [is_crisis |-> TRUE, response |-> format_crisis_response(d.severity)]
      ELSE [is_crisis |-> FALSE, response |-> <<>>]

get_crisis_response(text, sentiment_score) ==
  get_crisis_response_table(shipped_table, text, sentiment_score)

-----------------------------------------------------------------------------
(* SentimentAnalyzer (src/sentiment/analyzer.py) *)

\* The raw polarity scores the two external scorers may return, in hundredths
VaderScores == {-100, 50}
TextBlobScores == {-100, 0}

\* _detect_crisis_indicators(text): the phrase list first, then the self-harm list
AnyContained(text, kws) == \E i \in 1..Len(kws) : Contains(text, kws[i])

\* _detect_crisis_indicators looking at the phrase list only
detect_crisis_indicators_phrases_only(text) ==
  IF text = <<>> THEN [crisis_detected |-> FALSE, crisis_severity |-> "none"]
  ELSE IF AnyContained(text, CRISIS_PHRASES)
       THEN [crisis_detected |-> TRUE, crisis_severity |-> "critical"]
  ELSE [crisis_detected |-> FALSE, crisis_severity |-> "none"]

detect_crisis_indicators(text) ==
  IF text = <<>> THEN [crisis_detected |-> FALSE, crisis_severity |-> "none"]
  ELSE IF AnyContained(text, CRISIS_PHRASES)
       THEN [crisis_detected |-> TRUE, crisis_severity |-> "critical"]
  ELSE IF AnyContained(text, SELF_HARM_KEYWORDS)
       THEN [crisis_detected |-> TRUE, crisis_severity |-> "critical"]
  ELSE [crisis_detected |-> FALSE, crisis_severity |-> "none"]

\* The regular expression's \w on the characters the messages use
IsWordChar(c) ==
  c \in { "a","b","c","d","e","f","g","h","i","j","k","l","m","n","o","p","q",
          "r","s","t","u","v","w","x","y","z","0","1","2","3","4","5","6","7",
          "8","9","_" }

\* \b between text[p] and text[p+1] (p = 0: the start, p = Len: the end)
WordBoundary(text, p) ==
  LET before == p >= 1 /\ IsWordChar(text[p])
      after == p < Len(text) /\ IsWordChar(text[p + 1])
  IN  before # after

\* re.search(r'\b' + re.escape(kw) + r'\b', text)
SearchWord(text, kw) ==
  \E i \in 1..(Len(text) - Len(kw) + 1) :
    /\ SubSeq(text, i, i + Len(kw) - 1) = kw
    /\ WordBoundary(text, i - 1)
    /\ WordBoundary(text, i + Len(kw) - 1)

has_keyword(text, keywords) == \E i \in 1..Len(keywords) : SearchWord(text, keywords[i])

\* _detect_mental_state(text)
detect_mental_state(text) ==
  [stress_indicators |-> has_keyword(text, STRESS_KEYWORDS),
   depression_indicators |-> has_keyword(text, DEPRESSION_KEYWORDS),
   positive_indicators |-> has_keyword(text, POSITIVE_KEYWORDS),
   self_harm_indicators |-> AnyContained(text, SELF_HARM_KEYWORDS)]

\* _combine_sentiment_scores without the clamp
combine_sentiment_scores_unclamped(vader_compound, textblob_polarity) ==
  (60 * vader_compound + 40 * textblob_polarity) \div 100

\* _combine_sentiment_scores: 0.6 * compound + 0.4 * polarity, clamped.  The
\* scores are multiples of 0.05, so the sum is a whole number of hundredths.
combine_sentiment_scores(vader_compound, textblob_polarity) ==
  Max(-100, Min(100, (60 * vader_compound + 40 * textblob_polarity) \div 100))

\* _categorize_emotion with the lowest boundary exclusive
categorize_emotion_exclusive(sentiment_score) ==
  IF sentiment_score < -75 THEN "very_negative"
  ELSE IF sentiment_score <= -25 THEN "negative"
  ELSE IF sentiment_score <= -5 THEN "slightly_negative"
  ELSE IF sentiment_score <= 5 THEN "neutral"
  ELSE IF sentiment_score <= 25 THEN "slightly_positive"
  ELSE IF sentiment_score <= 75 THEN "positive"
  ELSE "very_positive"

\* _categorize_emotion(sentiment_score)
categorize_emotion(sentiment_score) ==
  IF sentiment_score <= -75 THEN "very_negative"
  ELSE IF sentiment_score <= -25 THEN "negative"
  ELSE IF sentiment_score <= -5 THEN "slightly_negative"
  ELSE IF sentiment_score <= 5 THEN "neutral"
  ELSE IF sentiment_score <= 25 THEN "slightly_positive"
  ELSE IF sentiment_score <= 75 THEN "positive"
  ELSE "very_positive"

\* _get_emotion_intensity(sentiment_score)
get_emotion_intensity(sentiment_score) ==
  IF sentiment_score < 0 THEN -sentiment_score ELSE sentiment_score

\* _get_default_sentiment()
get_default_sentiment ==
  [vader_compound |-> 0,
   textblob_polarity |-> 0,
   combined_sentiment_score |-> 0,
   emotion_category |-> "neutral",
   emotion_intensity |-> 0,
   mental_state_detected |-> [stress_indicators |-> FALSE,
                              depression_indicators |-> FALSE,
                              positive_indicators |-> FALSE,
                              self_harm_indicators |-> FALSE],
   crisis_detected |-> FALSE,
   crisis_severity |-> "none"]

\* analyze_sentiment that turns away None alone
analyze_sentiment_none_only(text, vader_compound, textblob_polarity) ==
  IF text = NoneValue THEN get_default_sentiment
  ELSE LET text_lower == Strip(Lower(text.chars))
           crisis == detect_crisis_indicators(text_lower)
           combined_score == combine_sentiment_scores(vader_compound, textblob_polarity)
       IN  [vader_compound |-> vader_compound,
            textblob_polarity |-> textblob_polarity,
            combined_sentiment_score |-> combined_score,
            emotion_category |-> categorize_emotion(combined_score),
            emotion_intensity |-> get_emotion_intensity(combined_score),
            mental_state_detected |-> detect_mental_state(text_lower),
            crisis_detected |-> crisis.crisis_detected,
            crisis_severity |-> crisis.crisis_severity]

\* analyze_sentiment(text), given what the two scorers return for the text.
\* The result's raw_text, text_normalized and analysis_timestamp, which nothing
\* reads, are left out.
analyze_sentiment(text, vader_compound, textblob_polarity) ==
  IF ~text.isstr \/ text.chars = <<>> THEN get_default_sentiment
  ELSE LET text_lower == Strip(Lower(text.chars))
           crisis == detect_crisis_indicators(text_lower)
           combined_score == combine_sentiment_scores(vader_compound, textblob_polarity)
       IN  [vader_compound |-> vader_compound,
            textblob_polarity |-> textblob_polarity,
            combined_sentiment_score |-> combined_score,
            emotion_category |-> categorize_emotion(combined_score),
            emotion_intensity |-> get_emotion_intensity(combined_score),
            mental_state_detected |-> detect_mental_state(text_lower),
            crisis_detected |-> crisis.crisis_detected,
            crisis_severity |-> crisis.crisis_severity]

-----------------------------------------------------------------------------
(* EmotionClassifier (src/emotion_classifier.py) *)

\* classify_emotion's own crisis_keywords
classifier_crisis_keywords ==
  << <<"k","i","l","l"," ","m","y","s","e","l","f">>,
     <<"s","u","i","c","i","d","e">>,
     <<"w","a","n","t"," ","t","o"," ","d","i","e">>,
     <<"n","o"," ","p","o","i","n","t"," ","l","i","v","i","n","g">>,
     <<"e","n","d"," ","i","t"," ","a","l","l">>,
     <<"h","u","r","t"," ","m","y","s","e","l","f">>,
     <<"s","e","l","f"," ","h","a","r","m">>,
     <<"o","v","e","r","d","o","s","e">>,
     <<"j","u","m","p">>,
     <<"h","a","r","m">> >>

\* _default_emotion(); confidences are in thousandths (round(score, 3))
default_emotion ==
  [primary_emotion |-> "neutral",
   confidence |-> 0,
   all_emotions |-> << [emotion |-> "neutral", confidence |-> 1000] >>,
   is_crisis |-> FALSE]

\* What the text-classification pipeline may do on a call: the pipeline failed to
\* load at construction, inference raises, or it returns predictions[0], a
\* ranked list that may be empty
ClassifierOutcomes ==
  { [kind |-> "unloaded", top_emotions |-> <<>>],
    [kind |-> "raises", top_emotions |-> <<>>],
    [kind |-> "predicted", top_emotions |-> <<>>],
    [kind |-> "predicted",
     top_emotions |-> << [label |-> "sadness", score |-> 912],
                         [label |-> "fear", score |-> 51] >>] }

\* classify_emotion scanning for its crisis keywords also when no pipeline was loaded
classify_emotion_scans_when_unloaded(text, outcome) ==
  IF outcome.kind = "unloaded"
  THEN [default_emotion EXCEPT !.is_crisis = text.isstr /\ AnyContained(Lower(text.chars), classifier_crisis_keywords)]
  ELSE IF ~text.isstr \/ outcome.kind = "raises" THEN default_emotion
  ELSE IF outcome.top_emotions = <<>> THEN default_emotion
  ELSE LET top_emotions == outcome.top_emotions
           primary == top_emotions[1]
       IN  [primary_emotion |-> primary.label,
            confidence |-> primary.score,
            all_emotions |-> [i \in 1..Len(top_emotions) |->
                                [emotion |-> top_emotions[i].label,
                                 confidence |-> top_emotions[i].score]],
            is_crisis |-> AnyContained(Lower(text.chars), classifier_crisis_keywords)]

\* classify_emotion(text), given what the pipeline does.  text[:512] raises for
\* None, which the method catches.
classify_emotion(text, outcome) ==
  IF outcome.kind = "unloaded" THEN default_emotion
  ELSE IF ~text.isstr \/ outcome.kind = "raises" THEN default_emotion
  ELSE IF outcome.top_emotions = <<>> THEN default_emotion
  ELSE LET top_emotions == outcome.top_emotions
           primary == top_emotions[1]
       IN  [primary_emotion |-> primary.label,
            confidence |-> primary.score,
            all_emotions |-> [i \in 1..Len(top_emotions) |->
                                [emotion |-> top_emotions[i].label,
                                 confidence |-> top_emotions[i].score]],
            is_crisis |-> AnyContained(Lower(text.chars), classifier_crisis_keywords)]

-----------------------------------------------------------------------------
(* T5ResponseGenerator (src/response_generation/t5_response_generator.py) *)

\* What the generator may do on a call: no model was loaded, generation raises,
\* or it produces a text
T5Outcomes == {"unloaded", "raises", "generated"}

\* Python's text.split('. '): the pieces between the occurrences of the
\* separator taken from the left, empty pieces kept
RECURSIVE SplitSentences(_)
SplitSentences(text) ==
  LET at == { i \in 1..(Len(text) - 1) : text[i] = "." /\ text[i + 1] = " " }
  IN  IF at = {} THEN << text >>
      ELSE LET i == CHOOSE x \in at : \A y \in at : x <= y
           IN  << SubSeq(text, 1, i - 1) >> \o SplitSentences(SubSeq(text, i + 2, Len(text)))

\* The loop of _remove_repetition over the pieces from position i on:
\* unique_sentences, every piece stripped, the empty and the seen ones left out
RECURSIVE UniqueSentences(_, _, _)
UniqueSentences(sentences, i, unique_sentences) ==
  IF i > Len(sentences) THEN unique_sentences
  ELSE LET sentence == Strip(sentences[i])
           seen == { unique_sentences[k] : k \in 1..Len(unique_sentences) }
       IN  UniqueSentences(sentences, i + 1,
                           IF sentence # <<>> /\ sentence \notin seen
                           THEN Append(unique_sentences, sentence)
                           ELSE unique_sentences)

\* '. '.join(unique_sentences)
RECURSIVE JoinSentences(_)
JoinSentences(sentences) ==
  IF sentences = <<>> THEN <<>>
  ELSE IF Len(sentences) = 1 THEN sentences[1]
  ELSE sentences[1] \o << ".", " " >> \o JoinSentences(Tail(sentences))

\* _remove_repetition(text)
remove_repetition(text) ==
  LET unique_sentences == UniqueSentences(SplitSentences(text), 1, <<>>)
      result == JoinSentences(unique_sentences)
  IN  IF result # <<>> /\ result[Len(result)] # "." THEN result \o << "." >>
      ELSE result

\* templates.build_therapeutic_response(t5_response, emotion, topic): the base
\* text, then the affirmation of a known emotion, the grounding line of a known
\* topic, and the closing question.  Each added paragraph is named by its key.
build_therapeutic_response(t5_response, emotion, topic) ==
  << t5_response >>
  \o (IF emotion \in {"anxiety", "sadness", "anger", "fear", "joy", "neutral"}
      THEN << "affirmation:" \o emotion >> ELSE <<>>)
  \o (IF topic \in {"exam", "job", "relationship", "family", "health", "money",
                    "social", "school"}
      THEN << "grounding:" \o topic >> ELSE <<>>)
  \o << "I'm here to listen and support you. What would help most right now?" >>

\* generate_response(user_input, emotion, topic, ...), given what the generator does
generate_response(user_input, emotion, topic, outcome) ==
  IF outcome = "unloaded"
  THEN << "I'm having trouble processing your request. Please try again." >>
  ELSE IF outcome = "raises"
  THEN << "I understand you're going through something difficult. Please share more about what you're experiencing." >>
  ELSE build_therapeutic_response("<T5 output>", emotion, topic)

-----------------------------------------------------------------------------
(* HybridMentalHealthChatbot (src/hybrid_chatbot.py) *)

\* _extract_topic(user_message): the first topic of the table with a keyword in
\* the lowercased message
RECURSIVE FirstTopic(_, _)
FirstTopic(message_lower, i) ==
  IF i > Len(topic_keywords) THEN "general"
  ELSE IF AnyContained(message_lower, topic_keywords[i].keywords)
       THEN topic_keywords[i].topic
       ELSE FirstTopic(message_lower, i + 1)

\* _extract_topic with the last matching topic of the table winning
RECURSIVE LastTopic(_, _)
LastTopic(message_lower, i) ==
  IF i < 1 THEN "general"
  ELSE IF AnyContained(message_lower, topic_keywords[i].keywords)
       THEN topic_keywords[i].topic
       ELSE LastTopic(message_lower, i - 1)

extract_topic_last_match(user_message) == LastTopic(Lower(user_message), Len(topic_keywords))

extract_topic(user_message) == FirstTopic(Lower(user_message), 1)

\* _match_emotion_precisely(detected_emotion, user_message)
RECURSIVE FirstEmotion(_, _, _)
FirstEmotion(message_lower, detected_emotion, i) ==
  IF i > Len(emotion_words)
  THEN (IF detected_emotion = "" THEN "neutral" ELSE detected_emotion)
  ELSE IF AnyContained(message_lower, emotion_words[i].words)
       THEN emotion_words[i].label
       ELSE FirstEmotion(message_lower, detected_emotion, i + 1)

\* _match_emotion_precisely with a non-empty classifier label winning
match_emotion_precisely_classifier_first(detected_emotion, user_message) ==
  IF detected_emotion # "" THEN detected_emotion
  ELSE FirstEmotion(Lower(user_message), detected_emotion, 1)

match_emotion_precisely(detected_emotion, user_message) ==
  FirstEmotion(Lower(user_message), detected_emotion, 1)

-----------------------------------------------------------------------------
(* UserManager (src/database/user_manager.py) *)

\* A nullable column or argument: NULL / None, or a value
Null == [null |-> TRUE, v |-> 0]
NullText == [null |-> TRUE, v |-> ""]
Val(x) == [null |-> FALSE, v |-> x]

NoUsers == [u \in {} |-> 0]

\* create_user's INSERT OR IGNORE INTO users, at time now; a failing statement
\* is caught inside create_user and leaves the table as it was
create_user_rows(us, user_id, now, ok) ==
  IF ok /\ user_id \notin DOMAIN us
  THEN [u \in DOMAIN us \cup {user_id} |->
          IF u = user_id THEN [created_at |-> now, total_conversations |-> 0]
          ELSE us[u]]
  ELSE us

\* create_user(user_id)
create_user(user_id, ok) ==
  /\ clock' = clock + 1
  /\ users' = create_user_rows(users, user_id, clock', ok)
  /\ db_call' = [op |-> "create_user", user_id |-> user_id, result |-> ok]
  /\ UNCHANGED << conversations, mood_tracking, chat_sessions >>

\* The row save_conversation inserts into conversations
conversation_row(id, user_id, user_message, bot_response, emotion_result, sentiment, now) ==
  [id |-> id,
   user_id |-> user_id,
   user_message |-> user_message,
   bot_response |-> bot_response,
   emotion |-> emotion_result.primary_emotion,
   emotion_confidence |-> emotion_result.confidence,
   sentiment_score |-> sentiment.combined_sentiment_score,
   is_crisis |-> IF sentiment.crisis_detected THEN 1 ELSE 0,
   timestamp |-> now]

\* save_conversation with each statement committed as it runs: the
\* conversations row stays when a later statement fails
save_conversation_autocommits(user_id, user_message, bot_response, emotion_result, sentiment, create_ok, save_ok) ==
  LET now == clock + 1
      committed == save_ok /\ user_message.isstr
  IN  /\ clock' = now
      /\ conversations' =
           Append(conversations,
                  conversation_row(Len(conversations) + 1, user_id, user_message,
                                   bot_response, emotion_result, sentiment, now))
      /\ users' = create_user_rows(users, user_id, now, create_ok)
      /\ db_call' = [op |-> "save_conversation", user_id |-> user_id, result |-> committed,
                     user_message |-> user_message, bot_response |-> bot_response,
                     emotion |-> emotion_result.primary_emotion,
                     sentiment_score |-> sentiment.combined_sentiment_score]
      /\ UNCHANGED << mood_tracking, chat_sessions >>

\* save_conversation(user_id, user_message, bot_response, emotion_result,
\* sentiment).  create_ok: create_user's statement succeeds; save_ok: the
\* connection, the three statements and the commit succeed.  The three
\* statements run in one transaction, which a NULL user_message (NOT NULL
\* column) or a storage error abandons uncommitted.
save_conversation(user_id, user_message, bot_response, emotion_result, sentiment, create_ok, save_ok) ==
  LET now == clock + 1
      users1 == create_user_rows(users, user_id, now, create_ok)
      committed == save_ok /\ user_message.isstr
  IN  /\ clock' = now
      /\ IF committed
         THEN /\ conversations' =
                   Append(conversations,
                          conversation_row(Len(conversations) + 1, user_id, user_message,
                                           bot_response, emotion_result, sentiment, now))
              /\ mood_tracking' =
                   Append(mood_tracking,
                          [id |-> Len(mood_tracking) + 1,
                           user_id |-> user_id,
                           emotion |-> emotion_result.primary_emotion,
                           sentiment_score |-> sentiment.combined_sentiment_score,
                           timestamp |-> now])
              /\ users' = [u \in DOMAIN users1 |->
                             IF u = user_id
                             THEN [users1[u] EXCEPT !.total_conversations = @ + 1]
                             ELSE users1[u]]
         ELSE /\ users' = users1
              /\ UNCHANGED << conversations, mood_tracking >>
      /\ db_call' = [op |-> "save_conversation", user_id |-> user_id, result |-> committed,
                     user_message |-> user_message, bot_response |-> bot_response,
                     emotion |-> emotion_result.primary_emotion,
                     sentiment_score |-> sentiment.combined_sentiment_score]
      /\ UNCHANGED chat_sessions

\* ORDER BY timestamp DESC: the rows with the latest timestamp first.  Rows
\* with one timestamp keep no defined order in SQLite; the clock gives every
\* save its own.
RECURSIVE OrderByTimestampDesc(_)
OrderByTimestampDesc(rows) ==
  IF rows = <<>> THEN <<>>
  ELSE LET latest == CHOOSE i \in 1..Len(rows) :
                       \A j \in 1..Len(rows) :
                         \/ rows[j].timestamp < rows[i].timestamp
                         \/ rows[j].timestamp = rows[i].timestamp /\ i <= j
           rest == [k \in 1..(Len(rows) - 1) |->
                      IF k < latest THEN rows[k] ELSE rows[k + 1]]
       IN  << rows[latest] >> \o OrderByTimestampDesc(rest)

\* The same, oldest first
RECURSIVE OrderByTimestampAsc(_)
OrderByTimestampAsc(rows) ==
  IF rows = <<>> THEN <<>>
  ELSE LET oldest == CHOOSE i \in 1..Len(rows) :
                       \A j \in 1..Len(rows) :
                         \/ rows[j].timestamp > rows[i].timestamp
                         \/ rows[j].timestamp = rows[i].timestamp /\ i <= j
           rest == [k \in 1..(Len(rows) - 1) |->
                      IF k < oldest THEN rows[k] ELSE rows[k + 1]]
       IN  << rows[oldest] >> \o OrderByTimestampAsc(rest)

\* LIMIT ?: the first `limit` rows; a negative LIMIT is no limit in SQLite
Limit(rows, limit) ==
  IF limit < 0 \/ limit >= Len(rows) THEN rows ELSE SubSeq(rows, 1, limit)

\* SELECT user_message, bot_response, emotion, sentiment_score, timestamp
history_columns(row) ==
  [user_message |-> row.user_message,
   bot_response |-> row.bot_response,
   emotion |-> row.emotion,
   sentiment_score |-> row.sentiment_score,
   timestamp |-> row.timestamp]

\* get_user_history returning the oldest turns first
user_history_oldest_first(rows, user_id, limit, ok) ==
  IF ~ok THEN <<>>
  ELSE LET selected == Limit(OrderByTimestampAsc(
                               SelectSeq(rows, LAMBDA row : row.user_id = user_id)),
                             limit)
       IN  [i \in 1..Len(selected) |-> history_columns(selected[i])]

\* What get_user_history(user_id, limit) returns from the conversations rows;
\* ok: the connection and the query succeed, else [] is returned
user_history(rows, user_id, limit, ok) ==
  IF ~ok THEN <<>>
  ELSE LET selected == Limit(OrderByTimestampDesc(
                               SelectSeq(rows, LAMBDA row : row.user_id = user_id)),
                             limit)
       IN  [i \in 1..Len(selected) |-> history_columns(selected[i])]

\* get_user_history(user_id, limit): reads, changes no table
get_user_history(user_id, limit, ok) ==
  /\ db_call' = [op |-> "get_user_history", user_id |-> user_id, limit |-> limit,
                 ok |-> ok, result |-> user_history(conversations, user_id, limit, ok)]
  /\ UNCHANGED << users, conversations, mood_tracking, chat_sessions, clock >>

\* start_chat_session(user_id, initial_emotion, initial_sentiment); ok: the
\* statement and the commit succeed.  The result is the new row's id, or None.
start_chat_session(user_id, initial_emotion, initial_sentiment, ok) ==
  LET now == clock + 1
      session_id == Len(chat_sessions) + 1
  IN  /\ clock' = now
      /\ IF ok
         THEN /\ chat_sessions' =
                   Append(chat_sessions,
                          [id |-> session_id,
                           user_id |-> user_id,
                           session_start |-> now,
                           session_end |-> Null,
                           initial_emotion |-> initial_emotion,
                           initial_sentiment |-> initial_sentiment,
                           final_emotion |-> NullText,
                           final_sentiment |-> Null,
                           mood_improvement |-> Null,
                           message_count |-> 0])
              /\ db_call' = [op |-> "start_chat_session", user_id |-> user_id,
                             result |-> Val(session_id)]
         ELSE /\ UNCHANGED chat_sessions
              /\ db_call' = [op |-> "start_chat_session", user_id |-> user_id,
                             result |-> Null]
      /\ UNCHANGED << users, conversations, mood_tracking >>

\* The dict with the band's ends counted as improved and declined
improvement_result_inclusive(mood_improvement) ==
  [isnone |-> FALSE,
   improvement |-> mood_improvement,
   improved |-> mood_improvement >= 10,
   stable |-> -10 <= mood_improvement /\ mood_improvement <= 10,
   declined |-> mood_improvement <= -10]

\* The dict end_chat_session returns for an improvement
improvement_result(mood_improvement) ==
  [isnone |-> FALSE,
   improvement |-> mood_improvement,
   improved |-> mood_improvement > 10,
   stable |-> -10 <= mood_improvement /\ mood_improvement <= 10,
   declined |-> mood_improvement < -10]

NoneResult ==
  [isnone |-> TRUE, improvement |-> 0, improved |-> FALSE, stable |-> FALSE,
   declined |-> FALSE]

\* end_chat_session without the `if result:` test, a missing row read as an
\* initial sentiment of 0
end_chat_session_without_lookup_test(session_id, final_emotion, final_sentiment, ok) ==
  LET now == clock + 1
      found == session_id \in 1..Len(chat_sessions)
      initial_sentiment == IF found THEN chat_sessions[session_id].initial_sentiment
                           ELSE Val(0)
      raises == ~ok \/ final_sentiment.null \/ initial_sentiment.null
      mood_improvement == final_sentiment.v - initial_sentiment.v
  IN  /\ clock' = now
      /\ chat_sessions' =
           IF found /\ ~raises
           THEN [chat_sessions EXCEPT ![session_id] =
                   [@ EXCEPT !.session_end = Val(now),
                             !.final_emotion = final_emotion,
                             !.final_sentiment = final_sentiment,
                             !.mood_improvement = Val(mood_improvement)]]
           ELSE chat_sessions
      /\ db_call' = [op |-> "end_chat_session", session_id |-> session_id,
                     found |-> found, caught |-> raises,
                     final_sentiment |-> final_sentiment,
                     result |-> IF raises THEN NoneResult
                                ELSE improvement_result(mood_improvement)]
      /\ UNCHANGED << users, conversations, mood_tracking >>

\* end_chat_session(session_id, final_emotion, final_sentiment); ok: the
\* connection, the statements and the commit succeed.  The subtraction raises
\* TypeError when an operand is None; every exception is caught and None
\* returned (caught).  No row with that id: falls off the end, None.
end_chat_session(session_id, final_emotion, final_sentiment, ok) ==
  LET now == clock + 1
      found == session_id \in 1..Len(chat_sessions)
      initial_sentiment == chat_sessions[session_id].initial_sentiment
      raises == \/ ~ok
                \/ found /\ (final_sentiment.null \/ initial_sentiment.null)
      mood_improvement == final_sentiment.v - initial_sentiment.v
  IN  /\ clock' = now
      /\ IF found /\ ~raises
         THEN /\ chat_sessions' =
                   [chat_sessions EXCEPT ![session_id] =
                      [@ EXCEPT !.session_end = Val(now),
                                !.final_emotion = final_emotion,
                                !.final_sentiment = final_sentiment,
                                !.mood_improvement = Val(mood_improvement)]]
              /\ db_call' = [op |-> "end_chat_session", session_id |-> session_id,
                             found |-> TRUE, caught |-> FALSE,
                             final_sentiment |-> final_sentiment,
                             result |-> improvement_result(mood_improvement)]
         ELSE /\ UNCHANGED chat_sessions
              /\ db_call' = [op |-> "end_chat_session", session_id |-> session_id,
                             found |-> found, caught |-> raises,
                             final_sentiment |-> final_sentiment,
                             result |-> NoneResult]
      /\ UNCHANGED << users, conversations, mood_tracking >>

\* A quotient kept exact: num / den
Ratio(num, den) == [num |-> num, den |-> den]

\* The rows of chat_sessions WHERE user_id = ?
SessionsOf(rows, user_id) == { i \in 1..Len(rows) : rows[i].user_id = user_id }

\* SUM(mood_improvement) over the rows numbered ids, NULLs left out
RECURSIVE SumImprovement(_, _)
SumImprovement(rows, ids) ==
  IF ids = {} THEN 0
  ELSE LET i == CHOOSE x \in ids : TRUE
       IN  (IF rows[i].mood_improvement.null THEN 0 ELSE rows[i].mood_improvement.v)
             + SumImprovement(rows, ids \ {i})

\* The dict get_mood_improvement_stats builds from its query's row
stats_result_of_ended(rows, user_id) ==
  LET mine == SessionsOf(rows, user_id)
      ended == { i \in mine : ~rows[i].mood_improvement.null }
      total == Cardinality(ended)
      improved == Cardinality({ i \in ended : rows[i].mood_improvement.v > 10 })
      declined == Cardinality({ i \in ended : rows[i].mood_improvement.v < -10 })
  IN  [empty |-> FALSE,
       total_sessions |-> total,
       average_improvement |-> IF ended = {} THEN Ratio(0, 1)
                               ELSE Ratio(SumImprovement(rows, ended), Cardinality(ended)),
       sessions_improved |-> improved,
       sessions_declined |-> declined,
       improvement_rate |-> IF total > 0 THEN Ratio(improved * 100, total) ELSE Ratio(0, 1)]

\* COUNT(*), AVG (over the non-NULL values, NULL when there is none), and the
\* two SUM(CASE ...) over the user's rows; a NULL mood_improvement passes
\* neither comparison.  improvement_rate is improved / total * 100.
stats_result(rows, user_id) ==
  LET mine == SessionsOf(rows, user_id)
      ended == { i \in mine : ~rows[i].mood_improvement.null }
      total == Cardinality(mine)
      improved == Cardinality({ i \in ended : rows[i].mood_improvement.v > 10 })
      declined == Cardinality({ i \in ended : rows[i].mood_improvement.v < -10 })
  IN  [empty |-> FALSE,
       total_sessions |-> total,
       average_improvement |-> IF ended = {} THEN Ratio(0, 1)
                               ELSE Ratio(SumImprovement(rows, ended), Cardinality(ended)),
       sessions_improved |-> improved,
       sessions_declined |-> declined,
       improvement_rate |-> IF total > 0 THEN Ratio(improved * 100, total) ELSE Ratio(0, 1)]

\* get_mood_improvement_stats(user_id); ok: the connection and the query
\* succeed.  An exception is caught and {} returned.
get_mood_improvement_stats(user_id, ok) ==
  /\ db_call' = [op |-> "get_mood_improvement_stats", user_id |-> user_id, ok |-> ok,
                 result |-> IF ok THEN stats_result(chat_sessions, user_id)
                            ELSE [empty |-> TRUE]]
  /\ UNCHANGED << users, conversations, mood_tracking, chat_sessions, clock >>

-----------------------------------------------------------------------------
(* UserSession (src/chatbot/session_manager.py) *)

\* A mood snapshot attribute that is None
NullFlag == [null |-> TRUE, v |-> FALSE]
NullState ==
  [null |-> TRUE,
   v |-> [stress_indicators |-> FALSE, depression_indicators |-> FALSE,
          positive_indicators |-> FALSE, self_harm_indicators |-> FALSE]]

\* initial_mood / current_mood before any mood is recorded: None
NoMood == [isnone |-> TRUE]
Mood(mood_entry) == [isnone |-> FALSE, entry |-> mood_entry]

\* A mood_data dict: each key record_mood reads is present (Val) or absent (Null)
MoodDataOf(sentiment) ==
  [emotion_category |-> Val(sentiment.emotion_category),
   combined_sentiment_score |-> Val(sentiment.combined_sentiment_score),
   crisis_detected |-> Val(sentiment.crisis_detected),
   mental_state_detected |-> Val(sentiment.mental_state_detected)]

\* record_mood's mood_entry: dict.get gives None for an absent key
mood_entry_of(mood_data, now) ==
  [timestamp |-> now,
   emotion_category |-> mood_data.emotion_category,
   sentiment_score |-> mood_data.combined_sentiment_score,
   crisis_detected |-> mood_data.crisis_detected,
   mental_state |-> mood_data.mental_state_detected]

\* add_message(role, content, metadata): datetime.now() is read for the
\* message's timestamp and again for updated_at
add_message(role, content, metadata) ==
  /\ conversation_history' =
       Append(conversation_history,
              [role |-> role, content |-> content, timestamp |-> clock + 1,
               metadata |-> IF metadata.null THEN {} ELSE metadata.v])
  /\ updated_at' = clock + 2
  /\ clock' = clock + 2
  /\ session_call' = [op |-> "add_message"]
  /\ UNCHANGED << mood_log, initial_mood, current_mood, session_active >>

\* record_mood with initial_mood overwritten by every call
record_mood_last_wins(mood_data) ==
  LET mood_entry == mood_entry_of(mood_data, clock + 1)
  IN  /\ mood_log' = Append(mood_log, mood_entry)
      /\ initial_mood' = Mood(mood_entry)
      /\ current_mood' = Mood(mood_entry)
      /\ clock' = clock + 1
      /\ session_call' = [op |-> "record_mood", mood_data |-> mood_data]
      /\ UNCHANGED << conversation_history, updated_at, session_active >>

\* record_mood(mood_data)
record_mood(mood_data) ==
  LET mood_entry == mood_entry_of(mood_data, clock + 1)
  IN  /\ mood_log' = Append(mood_log, mood_entry)
      /\ initial_mood' = IF initial_mood.isnone THEN Mood(mood_entry) ELSE initial_mood
      /\ current_mood' = Mood(mood_entry)
      /\ clock' = clock + 1
      /\ session_call' = [op |-> "record_mood", mood_data |-> mood_data]
      /\ UNCHANGED << conversation_history, updated_at, session_active >>

\* get_mood_change(): `not self.initial_mood` is true of None only (a
\* mood_entry always has its five keys); dict.get's default 0 never applies,
\* the key being present, so a None score reaches the subtraction and raises
\* TypeError
get_mood_change ==
  IF initial_mood.isnone \/ current_mood.isnone
  THEN [kind |-> "returned", recorded |-> FALSE, change |-> 0, improved |-> FALSE]
  ELSE LET initial_score == initial_mood.entry.sentiment_score
           current_score == current_mood.entry.sentiment_score
           change == current_score.v - initial_score.v
       IN  IF initial_score.null \/ current_score.null
           THEN [kind |-> "raised", exception |-> "TypeError"]
           ELSE [kind |-> "returned", recorded |-> TRUE,
                 initial_mood |-> initial_mood.entry.emotion_category,
                 current_mood |-> current_mood.entry.emotion_category,
                 sentiment_change |-> change,
                 improved |-> change > 0,
                 messages_count |-> Len(conversation_history)]

\* end_session()
end_session ==
  /\ session_active' = FALSE
  /\ updated_at' = clock + 1
  /\ clock' = clock + 1
  /\ session_call' = [op |-> "end_session"]
  /\ UNCHANGED << conversation_history, mood_log, initial_mood, current_mood >>

-----------------------------------------------------------------------------
(* SessionManager (src/chatbot/session_manager.py) *)

\* The session table is a dict, which keeps insertion order: an entry per
\* session ever inserted, alive until deleted.  A session's id (a fresh uuid4)
\* is its entry's position.  Of a managed UserSession the entry keeps
\* updated_at, session_active and the lengths of conversation_history and
\* mood_log; operated_at records when add_message, record_mood or end_session
\* last ran on it (its creation before any).  Times are whole hours.
new_session(user_id, now) ==
  [alive |-> TRUE, user_id |-> user_id, updated_at |-> now,
   session_active |-> TRUE, message_count |-> 0, mood_entries |-> 0,
   operated_at |-> now]

\* session_id in self.sessions
InTable(table, session_id) ==
  session_id \in 1..Len(table) /\ table[session_id].alive

\* del self.sessions[session_id]
Deleted(table, session_id) == [table EXCEPT ![session_id].alive = FALSE]

\* The ids cleanup_old_sessions collects: updated_at < now - max_age_hours
to_delete(table, now, max_age_hours) ==
  { sid \in 1..Len(table) :
      table[sid].alive /\ table[sid].updated_at < now - max_age_hours }

\* create_session(user_id)
create_session(user_id) ==
  /\ sessions' = Append(sessions, new_session(user_id, clock))
  /\ manager_call' = [op |-> "create_session", arg |-> 0,
                      result |-> Len(sessions) + 1]
  /\ UNCHANGED << clock, threads >>

\* get_session(session_id): the session, or None (0)
get_session(session_id) ==
  /\ manager_call' = [op |-> "get_session", arg |-> session_id,
                      result |-> IF InTable(sessions, session_id)
                                 THEN session_id ELSE 0]
  /\ UNCHANGED << sessions, clock, threads >>

\* UserSession.get_summary() of the session with this id; the times, as ISO
\* strings, carry what the hours do
get_summary(table, session_id) ==
  [session_id |-> session_id,
   user_id |-> table[session_id].user_id,
   updated_at |-> table[session_id].updated_at,
   message_count |-> table[session_id].message_count,
   mood_entries |-> table[session_id].mood_entries,
   session_active |-> table[session_id].session_active]

\* The summaries of the entries from position sid on that pass the test keep
RECURSIVE SummariesFrom(_, _, _)
SummariesFrom(table, sid, keep) ==
  IF sid > Len(table) THEN <<>>
  ELSE (IF keep[sid] THEN << get_summary(table, sid) >> ELSE <<>>)
         \o SummariesFrom(table, sid + 1, keep)

\* get_all_sessions without the test of session_active
get_all_sessions_with_ended ==
  /\ manager_call' =
       [op |-> "get_all_sessions", arg |-> 0,
        result |-> SummariesFrom(sessions, 1, [sid \in 1..Len(sessions) |-> sessions[sid].alive])]
  /\ UNCHANGED << sessions, clock, threads >>

\* get_all_sessions(): the summaries of self.sessions.values() with
\* session_active set, in the dict's order
get_all_sessions ==
  /\ manager_call' =
       [op |-> "get_all_sessions", arg |-> 0,
        result |-> SummariesFrom(sessions, 1,
                                 [sid \in 1..Len(sessions) |->
                                    sessions[sid].alive /\ sessions[sid].session_active])]
  /\ UNCHANGED << sessions, clock, threads >>

\* SessionManager.end_session answering False for a session ended before
manager_end_session_once(session_id) ==
  /\ sessions' = IF InTable(sessions, session_id)
                 THEN [sessions EXCEPT ![session_id].session_active = FALSE,
                                       ![session_id].updated_at = clock,
                                       ![session_id].operated_at = clock]
                 ELSE sessions
  /\ manager_call' = [op |-> "end_session", arg |-> session_id,
                      result |-> IF InTable(sessions, session_id)
                                      /\ sessions[session_id].session_active
                                 THEN 1 ELSE 0]
  /\ UNCHANGED << clock, threads >>

\* SessionManager.end_session(session_id)
manager_end_session(session_id) ==
  /\ sessions' = IF InTable(sessions, session_id)
                 THEN [sessions EXCEPT ![session_id].session_active = FALSE,
                                       ![session_id].updated_at = clock,
                                       ![session_id].operated_at = clock]
                 ELSE sessions
  /\ manager_call' = [op |-> "end_session", arg |-> session_id,
                      result |-> IF InTable(sessions, session_id) THEN 1 ELSE 0]
  /\ UNCHANGED << clock, threads >>

\* delete_session(session_id)
delete_session(session_id) ==
  /\ sessions' = IF InTable(sessions, session_id)
                 THEN Deleted(sessions, session_id) ELSE sessions
  /\ manager_call' = [op |-> "delete_session", arg |-> session_id,
                      result |-> IF InTable(sessions, session_id) THEN 1 ELSE 0]
  /\ UNCHANGED << clock, threads >>

\* cleanup_old_sessions(max_age_hours), run without interruption
cleanup_old_sessions(max_age_hours) ==
  /\ sessions' = [sid \in 1..Len(sessions) |->
                    IF sid \in to_delete(sessions, clock, max_age_hours)
                    THEN [sessions[sid] EXCEPT !.alive = FALSE]
                    ELSE sessions[sid]]
  /\ manager_call' = [op |-> "cleanup_old_sessions", arg |-> max_age_hours,
                      result |-> Cardinality(to_delete(sessions, clock, max_age_hours))]
  /\ UNCHANGED << clock, threads >>

\* get_session(session_id).add_message(...): sets updated_at
managed_add_message(session_id) ==
  /\ sessions' = [sessions EXCEPT ![session_id].message_count = @ + 1,
                                  ![session_id].updated_at = clock,
                                  ![session_id].operated_at = clock]
  /\ manager_call' = [op |-> "add_message", arg |-> session_id, result |-> 0]
  /\ UNCHANGED << clock, threads >>

\* get_session(session_id).record_mood(...): leaves updated_at as it is
managed_record_mood(session_id) ==
  /\ sessions' = [sessions EXCEPT ![session_id].mood_entries = @ + 1,
                                  ![session_id].operated_at = clock]
  /\ manager_call' = [op |-> "record_mood", arg |-> session_id, result |-> 0]
  /\ UNCHANGED << clock, threads >>

-----------------------------------------------------------------------------
(* The state each part starts in *)

NoFrame ==
  [user_id |-> "", user_message |-> NoneValue,
   emotion_result |-> [primary_emotion |-> "", confidence |-> 0,
                       all_emotions |-> <<>>, is_crisis |-> FALSE],
   sentiment |-> get_default_sentiment,
   topic |-> "", precise_emotion |-> "", is_crisis |-> FALSE, response |-> <<>>]

NoCall == [op |-> "none"]

PureIdle == pure_args = [fn |-> "none"] /\ pure_result = [done |-> FALSE]

ChatIdle ==
  /\ pc = "idle"
  /\ frame = NoFrame
  /\ steps = <<>>
  /\ t5_calls = 0
  /\ returned = [kind |-> "none"]
  /\ rows_at_call = 0

DbEmpty ==
  /\ users = NoUsers
  /\ conversations = <<>>
  /\ mood_tracking = <<>>
  /\ chat_sessions = <<>>
  /\ clock = 0
  /\ db_call = NoCall

\* UserSession.__init__
SessionFresh ==
  /\ conversation_history = <<>>
  /\ mood_log = <<>>
  /\ initial_mood = NoMood
  /\ current_mood = NoMood
  /\ updated_at = 0
  /\ session_active = TRUE
  /\ session_call = NoCall

\* SessionManager.__init__: no session, no request in flight
NoLifecycle ==
  [created |-> {}, ended |-> {}, deleted |-> {}, last_end |-> <<>>, last_answer |-> <<>>]

ManagerEmpty ==
  /\ sessions = <<>>
  /\ manager_call = NoCall
  /\ threads = <<>>
  /\ lifecycle = NoLifecycle

-----------------------------------------------------------------------------
(* detect_crisis as a function of the table, the text and the score *)

TextsOf(msgs) == { m.chars : m \in { x \in msgs : x.isstr } }

InitDetect ==
  /\ pure_args \in [fn : {"detect_crisis"},
                    table : {shipped_table, weighted_table},
                    text : TextsOf(Messages),
                    sentiment_score : Scores]
  /\ pure_result = [done |-> FALSE]
  /\ ChatIdle /\ DbEmpty /\ SessionFresh /\ ManagerEmpty

ApplyDetect ==
  /\ pure_args.fn = "detect_crisis"
  /\ ~pure_result.done
  /\ pure_result' = [done |-> TRUE,
                     value |-> detect_crisis_table(pure_args.table, pure_args.text,
                                                   pure_args.sentiment_score)]
  /\ UNCHANGED << pure_args, chat_vars, db_vars, session_vars, manager_vars >>

NextDetect == ApplyDetect

SpecDetect == InitDetect /\ [][NextDetect]_vars

\* The weight a matched table entry carries: its own in a dict, 0.9 in a list
EntryWeight(table, e) == IF table.isdict THEN e.severity ELSE 90

SetMax(S) == IF S = {} THEN 0 ELSE CHOOSE x \in S : \A y \in S : y <= x

\* C3: detect_crisis returns the maximum weight of the matched keywords (0 if
\* none), plus 0.1 capped at 1.0 exactly when the score is below -0.7 and a
\* keyword matched; is_crisis iff that severity is at least 0.80; the matched
\* keywords come back in table order.
C3_DetectCrisisSeverity ==
  (pure_args.fn = "detect_crisis" /\ pure_result.done) =>
    LET table == pure_args.table
        matched == SelectSeq(table.entries,
                             LAMBDA e : Contains(Lower(pure_args.text), e.keyword))
        maxw == SetMax({ EntryWeight(table, matched[i]) : i \in 1..Len(matched) })
        boosted == pure_args.sentiment_score < -70 /\ Len(matched) >= 1
        severity == IF boosted THEN Min(100, maxw + 10) ELSE maxw
        out == pure_result.value
    IN  /\ out.severity = severity
        /\ out.is_crisis <=> (severity >= 80)
        /\ out.keywords_found =
             [i \in 1..Len(matched) |->
                << matched[i].keyword, EntryWeight(table, matched[i]) >>]

\* C3's case: two weighted keywords matched, the larger boosted into the cap
C3_Witness ==
  /\ pure_args.fn = "detect_crisis" /\ pure_result.done
  /\ pure_args.table.isdict
  /\ pure_args.sentiment_score < -70
  /\ Len(pure_result.value.keywords_found) >= 2
  /\ pure_result.value.severity = 100
  /\ pure_result.value.is_crisis

-----------------------------------------------------------------------------
(* process_user_message(user_id, user_message), statement by statement *)

\* How many process_user_message calls a run makes
MaxChatCalls == 1

\* The messages the chatbot is driven with
ChatMessages ==
  { Str(msg_suicidal), Str(msg_want_to_die), Str(msg_jump), Str(msg_sad_exam),
    NoneValue }

\* The call begins
Call ==
  /\ pc = "idle"
  /\ clock < MaxChatCalls
  /\ \E user_id \in UserIds, user_message \in ChatMessages :
       frame' = [NoFrame EXCEPT !.user_id = user_id, !.user_message = user_message]
  /\ pc' = "classify"
  /\ steps' = <<>>
  /\ t5_calls' = 0
  /\ returned' = [kind |-> "none"]
  /\ rows_at_call' = Len(conversations)
  /\ UNCHANGED << pure_vars, db_vars, session_vars, manager_vars >>

\* Step 1: emotion_result = self.emotion_classifier.classify_emotion(user_message)
Classify ==
  /\ pc = "classify"
  /\ \E outcome \in ClassifierOutcomes :
       frame' = [frame EXCEPT !.emotion_result =
                   classify_emotion(frame.user_message, outcome)]
  /\ steps' = Append(steps, "classify")
  /\ pc' = "analyze"
  /\ UNCHANGED << t5_calls, returned, rows_at_call, pure_vars, db_vars, session_vars, manager_vars >>

\* Step 2: sentiment = self.sentiment_analyzer.analyze_sentiment(user_message)
Analyze ==
  /\ pc = "analyze"
  /\ \E vader_compound \in VaderScores, textblob_polarity \in TextBlobScores :
       frame' = [frame EXCEPT !.sentiment =
                   analyze_sentiment(frame.user_message, vader_compound,
                                     textblob_polarity)]
  /\ steps' = Append(steps, "analyze")
  /\ pc' = "topic"
  /\ UNCHANGED << t5_calls, returned, rows_at_call, pure_vars, db_vars, session_vars, manager_vars >>

\* Step 3: topic = self._extract_topic(user_message); None.lower() raises
\* AttributeError, which nothing catches
ExtractTopic ==
  /\ pc = "topic"
  /\ IF frame.user_message.isstr
     THEN /\ frame' = [frame EXCEPT !.topic = extract_topic(frame.user_message.chars)]
          /\ steps' = Append(steps, "topic")
          /\ pc' = "match"
          /\ UNCHANGED returned
     ELSE /\ returned' = [kind |-> "raised"]
          /\ pc' = "idle"
          /\ UNCHANGED << frame, steps >>
  /\ UNCHANGED << t5_calls, rows_at_call, pure_vars, db_vars, session_vars, manager_vars >>

\* Step 3, second half: precise_emotion = self._match_emotion_precisely(...)
MatchEmotion ==
  /\ pc = "match"
  /\ frame' = [frame EXCEPT !.precise_emotion =
                 match_emotion_precisely(frame.emotion_result.primary_emotion,
                                         frame.user_message.chars)]
  /\ steps' = Append(steps, "match")
  /\ pc' = "crisis"
  /\ UNCHANGED << t5_calls, returned, rows_at_call, pure_vars, db_vars, session_vars, manager_vars >>

\* Step 4: is_crisis, crisis_response = self.crisis_handler.get_crisis_response(
\* user_message, sentiment_score)
CrisisCheck ==
  /\ pc = "crisis"
  /\ LET r == get_crisis_response(frame.user_message.chars,
                                  frame.sentiment.combined_sentiment_score)
     IN  frame' = [frame EXCEPT !.is_crisis = r.is_crisis, !.response = r.response]
  /\ steps' = Append(steps, "crisis")
  /\ pc' = "respond"
  /\ UNCHANGED << t5_calls, returned, rows_at_call, pure_vars, db_vars, session_vars, manager_vars >>

\* Step 5 with the generator run before the branch
RespondGeneratesFirst ==
  /\ pc = "respond"
  /\ \E outcome \in T5Outcomes :
       LET generated == generate_response(frame.user_message.chars,
                                          frame.precise_emotion, frame.topic, outcome)
       IN  frame' = [frame EXCEPT !.response =
                       IF frame.is_crisis THEN frame.response ELSE generated]
  /\ t5_calls' = t5_calls + 1
  /\ steps' = Append(steps, "respond")
  /\ pc' = "persist"
  /\ UNCHANGED << returned, rows_at_call, pure_vars, db_vars, session_vars, manager_vars >>

\* Step 5: the crisis response, or self.t5_generator.generate_response(...)
Respond ==
  /\ pc = "respond"
  /\ IF frame.is_crisis
     THEN UNCHANGED << frame, t5_calls >>
     ELSE /\ \E outcome \in T5Outcomes :
               frame' = [frame EXCEPT !.response =
                           generate_response(frame.user_message.chars,
                                             frame.precise_emotion, frame.topic,
                                             outcome)]
          /\ t5_calls' = t5_calls + 1
  /\ steps' = Append(steps, "respond")
  /\ pc' = "persist"
  /\ UNCHANGED << returned, rows_at_call, pure_vars, db_vars, session_vars, manager_vars >>

\* Step 6 skipped when the response is the crisis response
PersistSkipsCrisis ==
  /\ pc = "persist"
  /\ IF frame.is_crisis
     THEN UNCHANGED db_vars
     ELSE \E create_ok \in BOOLEAN, save_ok \in BOOLEAN :
            save_conversation(frame.user_id, frame.user_message, frame.response,
                              frame.emotion_result, frame.sentiment, create_ok, save_ok)
  /\ steps' = Append(steps, "persist")
  /\ pc' = "return"
  /\ UNCHANGED << frame, t5_calls, returned, rows_at_call, pure_vars, session_vars, manager_vars >>

\* Step 6 with a failed save ending the call by an exception
PersistPropagatesFailure ==
  /\ pc = "persist"
  /\ \E create_ok \in BOOLEAN, save_ok \in BOOLEAN :
       /\ save_conversation(frame.user_id, frame.user_message, frame.response,
                            frame.emotion_result, frame.sentiment, create_ok, save_ok)
       /\ IF save_ok
          THEN /\ steps' = Append(steps, "persist")
               /\ pc' = "return"
               /\ UNCHANGED returned
          ELSE /\ returned' = [kind |-> "raised"]
               /\ pc' = "idle"
               /\ UNCHANGED steps
  /\ UNCHANGED << frame, t5_calls, rows_at_call, pure_vars, session_vars, manager_vars >>

\* Step 6: self.user_manager.save_conversation(user_id, user_message, response,
\* emotion_result, sentiment); its result is dropped
Persist ==
  /\ pc = "persist"
  /\ \E create_ok \in BOOLEAN, save_ok \in BOOLEAN :
       save_conversation(frame.user_id, frame.user_message, frame.response,
                         frame.emotion_result, frame.sentiment, create_ok, save_ok)
  /\ steps' = Append(steps, "persist")
  /\ pc' = "return"
  /\ UNCHANGED << frame, t5_calls, returned, rows_at_call, pure_vars, session_vars, manager_vars >>

\* return {...}
Return ==
  /\ pc = "return"
  /\ returned' = [kind |-> "result",
                  response |-> frame.response,
                  emotion |-> frame.precise_emotion,
                  emotion_confidence |-> frame.emotion_result.confidence,
                  sentiment |-> frame.sentiment,
                  is_crisis |-> frame.is_crisis]
  /\ steps' = Append(steps, "return")
  /\ pc' = "idle"
  /\ UNCHANGED << frame, t5_calls, rows_at_call, pure_vars, db_vars, session_vars, manager_vars >>

InitChat == PureIdle /\ ChatIdle /\ DbEmpty /\ SessionFresh /\ ManagerEmpty

NextChat ==
  \/ Call
  \/ Classify
  \/ Analyze
  \/ ExtractTopic
  \/ MatchEmotion
  \/ CrisisCheck
  \/ Respond
  \/ Persist
  \/ Return

SpecChat == InitChat /\ [][NextChat]_vars


-----------------------------------------------------------------------------
(* Properties of process_user_message *)

Range(seq) == { seq[i] : i \in 1..Len(seq) }

IsPrefix(a, b) == Len(a) <= Len(b) /\ SubSeq(b, 1, Len(a)) = a

\* The three crisis responses format_crisis_response can produce
CrisisResponses ==
  { CrisisTemplate("IMMEDIATE SUPPORT NEEDED"),
    CrisisTemplate("URGENT SUPPORT RECOMMENDED"),
    CrisisTemplate("SUPPORT AVAILABLE") }

\* The statements of process_user_message in the order the claim gives them
StepOrder ==
  << "classify", "analyze", "topic", "match", "crisis", "respond", "persist", "return" >>

\* The analyzer's phrase/self-harm check, or the handler's weighted check, is
\* positive for the message of the call
EitherCheckPositive ==
  \/ frame.sentiment.crisis_detected
  \/ detect_crisis(frame.user_message.chars,
                   frame.sentiment.combined_sentiment_score).is_crisis

\* C1: process_user_message returns is_crisis = TRUE with the crisis template
\* whenever at least one of the two crisis checks is positive, and only then:
\* escalation is the logical OR of the two checks.
C1_EscalationIsTheOrOfBothChecks ==
  returned.kind = "result" =>
    /\ returned.is_crisis <=> EitherCheckPositive
    /\ EitherCheckPositive => returned.response \in CrisisResponses

\* C2: in the crisis branch the response is the fixed crisis template, which
\* contains the hotline number 988 in every severity tier, and the generative
\* model has not been invoked for the message.
C2_CrisisBranchIsTemplateOnly ==
  /\ \A severity_level \in 0..100 :
       hotline_line \in Range(format_crisis_response(severity_level))
  /\ (frame.is_crisis /\ "respond" \in Range(steps)) =>
       /\ frame.response \in CrisisResponses
       /\ hotline_line \in Range(frame.response)
       /\ t5_calls = 0
  /\ (returned.kind = "result" /\ returned.is_crisis) =>
       /\ returned.response \in CrisisResponses
       /\ hotline_line \in Range(returned.response)
       /\ t5_calls = 0

\* C2's case: a call took the crisis branch and returned
C2_Witness ==
  /\ returned.kind = "result"
  /\ returned.is_crisis
  /\ frame.user_message = Str(msg_want_to_die)

\* The turn a call persists: the row save_conversation writes for its arguments
TurnOfCall(row) ==
  /\ row.user_id = frame.user_id
  /\ row.user_message = frame.user_message
  /\ row.bot_response = returned.response
  /\ row.emotion = frame.emotion_result.primary_emotion
  /\ row.emotion_confidence = frame.emotion_result.confidence
  /\ row.sentiment_score = frame.sentiment.combined_sentiment_score

\* C4 as stated: the steps run in the fixed order; every call that returns has
\* persisted exactly one turn, after the response was determined, in either
\* branch; a call that raises before the persist step has persisted nothing.
C4_EveryReturnPersistsOneTurn ==
  /\ IsPrefix(steps, StepOrder)
  /\ returned.kind = "result" =>
       /\ steps = StepOrder
       /\ Len(conversations) = rows_at_call + 1
       /\ TurnOfCall(conversations[Len(conversations)])
  /\ returned.kind = "raised" =>
       /\ "persist" \notin Range(steps)
       /\ Len(conversations) = rows_at_call

\* C4 as amended: the steps run in the fixed order; every call that returns has
\* run the persist step exactly once, after the response was determined, in
\* either branch, and has persisted exactly one turn when save_conversation
\* succeeded and none when it failed; until the persist step, and in a call
\* that raises before it, nothing is persisted.
C4_EveryReturnPersistsOneTurnIfSaved ==
  /\ IsPrefix(steps, StepOrder)
  /\ "persist" \notin Range(steps) => Len(conversations) = rows_at_call
  /\ returned.kind = "result" =>
       /\ steps = StepOrder
       /\ db_call.op = "save_conversation"
       /\ db_call.result =>
            /\ Len(conversations) = rows_at_call + 1
            /\ TurnOfCall(conversations[Len(conversations)])
       /\ ~db_call.result => Len(conversations) = rows_at_call
  /\ returned.kind = "raised" =>
       /\ "persist" \notin Range(steps)
       /\ Len(conversations) = rows_at_call

\* C4's case: a call in the crisis branch returned and its turn is persisted
C4_Witness ==
  /\ returned.kind = "result"
  /\ returned.is_crisis
  /\ db_call.op = "save_conversation" /\ db_call.result
  /\ Len(conversations) = rows_at_call + 1


-----------------------------------------------------------------------------
(* UserManager driven directly *)

\* How many UserManager calls a run makes
MaxDbOps == 3

\* The turns save_conversation is called with: a generative one and a crisis one
DbTurns ==
  { [user_message |-> Str(msg_sad_exam),
     bot_response |-> generate_response(msg_sad_exam, "sadness", "exam", "generated"),
     emotion_result |-> default_emotion,
     sentiment |-> analyze_sentiment(Str(msg_sad_exam), 50, 0)],
    [user_message |-> Str(msg_want_to_die),
     bot_response |-> format_crisis_response(100),
     emotion_result |-> classify_emotion(Str(msg_want_to_die),
                          [kind |-> "predicted",
                           top_emotions |-> << [label |-> "sadness", score |-> 912] >>]),
     sentiment |-> analyze_sentiment(Str(msg_want_to_die), -100, -100)] }

\* The sentiment values sessions start and end with (hundredths; None is
\* what a JSON null gives), and the emotions
SessionSentiments == { Val(-20), Val(0), Val(10), Null }
InitialEmotions == { "sadness" }
FinalEmotions == { Val("joy") }

CreateUser ==
  /\ clock < MaxDbOps
  /\ \E user_id \in UserIds, ok \in BOOLEAN : create_user(user_id, ok)
  /\ UNCHANGED << pure_vars, chat_vars, session_vars, manager_vars >>

SaveConversation ==
  /\ clock < MaxDbOps
  /\ \E user_id \in UserIds, turn \in DbTurns, create_ok \in BOOLEAN, save_ok \in BOOLEAN :
       save_conversation(user_id, turn.user_message, turn.bot_response,
                         turn.emotion_result, turn.sentiment, create_ok, save_ok)
  /\ UNCHANGED << pure_vars, chat_vars, session_vars, manager_vars >>

StartChatSession ==
  /\ clock < MaxDbOps
  /\ \E user_id \in UserIds, initial_emotion \in InitialEmotions,
        initial_sentiment \in SessionSentiments, ok \in BOOLEAN :
       start_chat_session(user_id, initial_emotion, initial_sentiment, ok)
  /\ UNCHANGED << pure_vars, chat_vars, session_vars, manager_vars >>

\* The session id is one of the rows' or the next, unused one
EndChatSession ==
  /\ clock < MaxDbOps
  /\ \E session_id \in 1..(Len(chat_sessions) + 1), final_emotion \in FinalEmotions,
        final_sentiment \in SessionSentiments, ok \in BOOLEAN :
       end_chat_session(session_id, final_emotion, final_sentiment, ok)
  /\ UNCHANGED << pure_vars, chat_vars, session_vars, manager_vars >>

InitDb == PureIdle /\ ChatIdle /\ DbEmpty /\ SessionFresh /\ ManagerEmpty

NextDb ==
  \/ CreateUser
  \/ SaveConversation
  \/ StartChatSession
  \/ EndChatSession

SpecDb == InitDb /\ [][NextDb]_vars

\* The step is a call of the named UserManager operation
IsDbCall(op) == clock' = clock + 1 /\ db_call'.op = op

\* C5: the conversations table is an append-only log: no row is ever modified
\* or deleted, and rows are added only by save_conversation, one per
\* successful call.
C5_ConversationsAppendOnly ==
  [][ IF IsDbCall("save_conversation") /\ db_call'.result
      THEN /\ Len(conversations') = Len(conversations) + 1
           /\ SubSeq(conversations', 1, Len(conversations)) = conversations
      ELSE conversations' = conversations ]_vars

\* C5's case: rows were written and a later session operation has run
C5_Witness ==
  /\ Len(conversations) >= 1
  /\ db_call.op = "end_chat_session"
  /\ ~db_call.result.isnone

\* C6: each chat_sessions row is created by start_chat_session with its initial
\* mood and mutated exactly once, on session end: a row that has been ended is
\* not modified again, and initial_emotion and initial_sentiment never change.
C6_SessionRowMutatedOnce ==
  [][ /\ Len(chat_sessions') >= Len(chat_sessions)
      /\ \A i \in 1..Len(chat_sessions) :
           /\ chat_sessions'[i].initial_emotion = chat_sessions[i].initial_emotion
           /\ chat_sessions'[i].initial_sentiment = chat_sessions[i].initial_sentiment
           /\ ~chat_sessions[i].session_end.null => chat_sessions'[i] = chat_sessions[i]
    ]_vars

\* The flags of a returned improvement are those of the claim, one of them true
FlagsAsClaimed(r) ==
  /\ r.improved <=> r.improvement > 10
  /\ r.declined <=> r.improvement < -10
  /\ r.stable <=> (-10 <= r.improvement /\ r.improvement <= 10)
  /\ Cardinality({ f \in {"improved", "stable", "declined"} : r[f] }) = 1

\* What a completed end_chat_session leaves and returns
EndStoresAndReturns ==
  LET sid == db_call'.session_id
      improvement == db_call'.final_sentiment.v - chat_sessions[sid].initial_sentiment.v
  IN  /\ chat_sessions'[sid].mood_improvement = Val(improvement)
      /\ chat_sessions'[sid].final_sentiment = db_call'.final_sentiment
      /\ ~db_call'.result.isnone
      /\ db_call'.result.improvement = improvement
      /\ FlagsAsClaimed(db_call'.result)

\* C7 as stated: end_chat_session on an existing session stores
\* mood_improvement = final_sentiment - initial_sentiment and returns it with
\* improved iff > 0.1, declined iff < -0.1, stable iff within [-0.1, 0.1];
\* exactly one flag is true.
C7_EndAlwaysStoresAndReturns ==
  [][ (IsDbCall("end_chat_session") /\ db_call'.found) => EndStoresAndReturns ]_vars

\* C7 as amended: the same for every end_chat_session call on an existing
\* session in which no statement raises (the storage calls succeed and both
\* sentiments are numbers); a call in which one raises returns None and leaves
\* the row as it was.
C7_EndStoresAndReturnsUnlessRaised ==
  [][ (IsDbCall("end_chat_session") /\ db_call'.found) =>
        IF db_call'.caught
        THEN db_call'.result.isnone /\ chat_sessions' = chat_sessions
        ELSE EndStoresAndReturns ]_vars

\* C7's case: a session ended with an improvement of exactly 0.1, which is stable
C7_Witness ==
  /\ db_call.op = "end_chat_session"
  /\ db_call.found /\ ~db_call.caught
  /\ db_call.result.improvement = 10
  /\ db_call.result.stable
  /\ chat_sessions[db_call.session_id].mood_improvement = Val(10)

\* C8: end_chat_session with a session id that has no row returns None and
\* leaves every chat_sessions row unchanged.
C8_EndOfUnknownSessionIsNoOp ==
  [][ (IsDbCall("end_chat_session") /\ ~db_call'.found) =>
        /\ db_call'.result.isnone
        /\ chat_sessions' = chat_sessions ]_vars

\* C8's case: sessions exist and a call named an id none of them has
C8_Witness ==
  /\ db_call.op = "end_chat_session"
  /\ ~db_call.found
  /\ ~db_call.caught
  /\ Len(chat_sessions) >= 1
  /\ db_call.result.isnone


-----------------------------------------------------------------------------
(* One UserSession driven directly *)

\* How far the session's clock runs
MaxSessionTicks == 4

\* What record_mood is given: analyses of messages, and a dict that carries
\* an emotion category but no combined_sentiment_score
MoodData ==
  { MoodDataOf(analyze_sentiment(Str(msg_sad_exam), -100, -100)),
    MoodDataOf(analyze_sentiment(Str(msg_hello), 50, 0)),
    MoodDataOf(analyze_sentiment(NoneValue, 0, 0)),
    [emotion_category |-> Val("neutral"), combined_sentiment_score |-> Null,
     crisis_detected |-> NullFlag, mental_state_detected |-> NullState] }

SessionMetadata == { [null |-> TRUE, v |-> {}], Val({ << "topic", "exam" >> }) }

AddMessage ==
  /\ clock + 2 <= MaxSessionTicks
  /\ \E role \in {"user", "assistant"}, content \in {Str(msg_hello)},
        metadata \in SessionMetadata :
       add_message(role, content, metadata)
  /\ UNCHANGED << pure_vars, chat_vars, users, conversations, mood_tracking,
                  chat_sessions, db_call, manager_vars >>

RecordMood ==
  /\ clock < MaxSessionTicks
  /\ \E mood_data \in MoodData : record_mood(mood_data)
  /\ UNCHANGED << pure_vars, chat_vars, users, conversations, mood_tracking,
                  chat_sessions, db_call, manager_vars >>

\* get_mood_change reads the session and changes nothing
GetMoodChange ==
  /\ session_call' = [op |-> "get_mood_change", result |-> get_mood_change]
  /\ UNCHANGED << conversation_history, mood_log, initial_mood, current_mood,
                  updated_at, session_active >>
  /\ UNCHANGED << pure_vars, chat_vars, db_vars, manager_vars >>

EndSession ==
  /\ clock < MaxSessionTicks
  /\ end_session
  /\ UNCHANGED << pure_vars, chat_vars, users, conversations, mood_tracking,
                  chat_sessions, db_call, manager_vars >>

InitSession == PureIdle /\ ChatIdle /\ DbEmpty /\ SessionFresh /\ ManagerEmpty

NextSession ==
  \/ AddMessage
  \/ RecordMood
  \/ GetMoodChange
  \/ EndSession

SpecSession == InitSession /\ [][NextSession]_vars

\* The step is a record_mood call
IsRecordMood == clock' # clock /\ session_call'.op = "record_mood"

\* The snapshot holds what the call's mood_data carries
SnapshotOfCall(mood_entry, mood_data) ==
  /\ mood_entry.emotion_category = mood_data.emotion_category
  /\ mood_entry.sentiment_score = mood_data.combined_sentiment_score
  /\ mood_entry.crisis_detected = mood_data.crisis_detected
  /\ mood_entry.mental_state = mood_data.mental_state_detected

\* C9: mood_log holds one snapshot per record_mood call in call order;
\* initial_mood is the first call's snapshot and never changes afterwards;
\* current_mood is the most recent call's snapshot; before the first call
\* both are unset.
C9_MoodLogAndFirstLastSnapshots ==
  /\ [](IF mood_log = <<>>
        THEN initial_mood.isnone /\ current_mood.isnone
        ELSE /\ initial_mood = Mood(mood_log[1])
             /\ current_mood = Mood(mood_log[Len(mood_log)]))
  /\ [][ IF IsRecordMood
         THEN /\ Len(mood_log') = Len(mood_log) + 1
              /\ SubSeq(mood_log', 1, Len(mood_log)) = mood_log
              /\ SnapshotOfCall(mood_log'[Len(mood_log')], session_call'.mood_data)
         ELSE mood_log' = mood_log ]_vars

\* C9's case: three calls with different moods, the first and last snapshots kept apart
C9_Witness ==
  /\ Len(mood_log) = 3
  /\ initial_mood = Mood(mood_log[1])
  /\ current_mood = Mood(mood_log[3])
  /\ mood_log[1].emotion_category # mood_log[2].emotion_category
  /\ mood_log[3].emotion_category # mood_log[1].emotion_category

\* C10: get_mood_change returns {change: 0, improved: false} when no mood has
\* been recorded; after one or more record_mood calls it returns
\* sentiment_change = current score - initial score, improved =
\* (sentiment_change > 0), the initial and current emotion categories, and
\* messages_count = the number of messages added.
C10_MoodChange ==
  session_call.op = "get_mood_change" =>
    LET result == session_call.result
    IN  /\ result.kind = "returned"
        /\ IF mood_log = <<>>
           THEN result = [kind |-> "returned", recorded |-> FALSE,
                          change |-> 0, improved |-> FALSE]
           ELSE /\ result.recorded
                /\ result.sentiment_change =
                     mood_log[Len(mood_log)].sentiment_score.v
                       - mood_log[1].sentiment_score.v
                /\ result.improved <=> result.sentiment_change > 0
                /\ result.initial_mood = mood_log[1].emotion_category
                /\ result.current_mood = mood_log[Len(mood_log)].emotion_category
                /\ result.messages_count = Len(conversation_history)


-----------------------------------------------------------------------------
(* One SessionManager, its calls one after another, hours passing in between *)

\* How many sessions are created, how many hours pass, and how many messages
\* and moods a managed session takes
MaxSessions == 2
MaxHours == 2
MaxEntries == 1

\* cleanup_old_sessions' max_age_hours
MaxAgeHours == { 1 }

\* Every id a call may name: the ones given out and one never given out
SessionIds == 1..(MaxSessions + 1)

OtherIdle == PureIdle /\ ChatIdle /\ SessionFresh
                /\ users = NoUsers /\ conversations = <<>> /\ mood_tracking = <<>>
                /\ chat_sessions = <<>> /\ db_call = NoCall

OtherUnchanged ==
  UNCHANGED << pure_vars, chat_vars, session_vars, users, conversations,
               mood_tracking, chat_sessions, db_call, lifecycle >>

CreateSession ==
  /\ Len(sessions) < MaxSessions
  /\ \E user_id \in UserIds : create_session(user_id)
  /\ OtherUnchanged

GetSession ==
  /\ \E session_id \in SessionIds : get_session(session_id)
  /\ OtherUnchanged

ManagerEndSession ==
  /\ \E session_id \in SessionIds : manager_end_session(session_id)
  /\ OtherUnchanged

DeleteSession ==
  /\ \E session_id \in SessionIds : delete_session(session_id)
  /\ OtherUnchanged

CleanupOldSessions ==
  /\ \E max_age_hours \in MaxAgeHours : cleanup_old_sessions(max_age_hours)
  /\ OtherUnchanged

ManagedAddMessage ==
  /\ \E session_id \in 1..Len(sessions) :
       /\ sessions[session_id].alive
       /\ sessions[session_id].message_count < MaxEntries
       /\ managed_add_message(session_id)
  /\ OtherUnchanged

ManagedRecordMood ==
  /\ \E session_id \in 1..Len(sessions) :
       /\ sessions[session_id].alive
       /\ sessions[session_id].mood_entries < MaxEntries
       /\ managed_record_mood(session_id)
  /\ OtherUnchanged

\* An hour passes
HourPasses ==
  /\ clock < MaxHours
  /\ clock' = clock + 1
  /\ UNCHANGED << sessions, manager_call, threads >>
  /\ OtherUnchanged

InitManager == OtherIdle /\ clock = 0 /\ ManagerEmpty

NextManager ==
  \/ CreateSession
  \/ GetSession
  \/ ManagerEndSession
  \/ DeleteSession
  \/ CleanupOldSessions
  \/ ManagedAddMessage
  \/ ManagedRecordMood
  \/ HourPasses

SpecManager == InitManager /\ [][NextManager]_vars

\* C11: cleanup_old_sessions(max_age_hours) removes a session if and only if
\* more than max_age_hours have elapsed since the last add_message, record_mood
\* or end_session on it; every session operated on more recently stays
\* retrievable by get_session.
C11_CleanupRemovesExactlyTheStale ==
  [][ (manager_call'.op = "cleanup_old_sessions" /\ clock' = clock) =>
        \A sid \in 1..Len(sessions) :
          sessions[sid].alive =>
            (~InTable(sessions', sid)
               <=> clock - sessions[sid].operated_at > manager_call'.arg) ]_vars


-----------------------------------------------------------------------------
(* Turns saved and histories read *)

\* How many save_conversation calls a run makes
MaxSaves == 3

\* The limits get_user_history is asked for (app.py reads it from the query
\* string as any int)
HistoryLimits == { -1, 0, 1, 2 }

SaveTurn ==
  /\ clock < MaxSaves
  /\ \E user_id \in UserIds, turn \in DbTurns, save_ok \in BOOLEAN :
       save_conversation(user_id, turn.user_message, turn.bot_response,
                         turn.emotion_result, turn.sentiment, TRUE, save_ok)
  /\ UNCHANGED << pure_vars, chat_vars, session_vars, manager_vars >>

GetUserHistory ==
  /\ \E user_id \in UserIds, limit \in HistoryLimits, ok \in BOOLEAN :
       get_user_history(user_id, limit, ok)
  /\ UNCHANGED << pure_vars, chat_vars, session_vars, manager_vars >>

InitHistory == PureIdle /\ ChatIdle /\ DbEmpty /\ SessionFresh /\ ManagerEmpty

NextHistory ==
  \/ SaveTurn
  \/ GetUserHistory

SpecHistory == InitHistory /\ [][NextHistory]_vars

-----------------------------------------------------------------------------
(* Properties of get_user_history *)

\* The user's saved turns, in the order they were saved
TurnsOf(user_id) == SelectSeq(conversations, LAMBDA row : row.user_id = user_id)

\* A history entry is the turn the row was saved with
SameTurn(entry, row) ==
  /\ entry.user_message = row.user_message
  /\ entry.bot_response = row.bot_response
  /\ entry.emotion = row.emotion
  /\ entry.sentiment_score = row.sentiment_score
  /\ entry.timestamp = row.timestamp

\* A successful save_conversation stores the turn it was called with, stamped
\* with the time of the call
SavedAsGiven ==
  (IsDbCall("save_conversation") /\ db_call'.result) =>
    LET row == conversations'[Len(conversations')]
    IN  /\ row.user_id = db_call'.user_id
        /\ row.user_message = db_call'.user_message
        /\ row.bot_response = db_call'.bot_response
        /\ row.emotion = db_call'.emotion
        /\ row.sentiment_score = db_call'.sentiment_score
        /\ row.timestamp = clock'

\* The result is the k most recently saved turns of the user, most recent first
MostRecentFirst(result, user_id, k) ==
  LET turns == TurnsOf(user_id)
      n == Len(turns)
  IN  /\ Len(result) = k
      /\ \A i \in 1..k : SameTurn(result[i], turns[n - i + 1])

-----------------------------------------------------------------------------
(* One SessionManager, its calls running concurrently *)

\* How many requests run at once and how many calls each makes
NumThreads == 2
MaxCalls == 2

\* The table has no lock.  A thread may be preempted between any two
\* bytecodes: between delete_session's `in` test and its `del`, and between
\* two steps of the iteration over self.sessions.items().  One dict operation
\* (get, store, del, `in`, one next() of the iterator) is atomic.

\* A request that holds no call
IdleThread ==
  [pc |-> "idle", op |-> "none", arg |-> 0, cutoff_time |-> 0,
   pos |-> 0, used |-> 0, len |-> 0, to_delete |-> <<>>,
   outcome |-> "none", calls |-> 0]

\* len(self.sessions)
LiveCount(table) == Cardinality({ sid \in 1..Len(table) : table[sid].alive })

\* The entry the iterator yields after position pos, 0 if none is left
NextEntry(table, pos) ==
  IF \E sid \in (pos + 1)..Len(table) : table[sid].alive
  THEN CHOOSE sid \in (pos + 1)..Len(table) :
         /\ table[sid].alive
         /\ \A other \in (pos + 1)..(sid - 1) : ~table[other].alive
  ELSE 0

Returned(thread, outcome) ==
  [thread EXCEPT !.pc = "idle", !.outcome = outcome, !.calls = @ + 1]

Raised(thread, exception) ==
  [thread EXCEPT !.pc = "raised", !.outcome = exception, !.calls = @ + 1]

ThreadUnchanged ==
  /\ UNCHANGED << clock, manager_call >>
  /\ OtherUnchanged

\* create_session: the UserSession is built locally and stored in one step
ThreadCreateSession(t) ==
  /\ threads[t].pc = "idle" /\ threads[t].calls < MaxCalls
  /\ Len(sessions) < MaxSessions
  /\ \E user_id \in UserIds :
       sessions' = Append(sessions, new_session(user_id, clock))
  /\ threads' = [threads EXCEPT ![t] =
                   Returned([@ EXCEPT !.op = "create_session",
                                      !.arg = Len(sessions) + 1], "returned")]
  /\ ThreadUnchanged

\* get_session: self.sessions.get(session_id)
ThreadGetSession(t) ==
  /\ threads[t].pc = "idle" /\ threads[t].calls < MaxCalls
  /\ \E session_id \in SessionIds :
       threads' = [threads EXCEPT ![t] =
                     Returned([@ EXCEPT !.op = "get_session", !.arg = session_id],
                              IF InTable(sessions, session_id)
                              THEN "returned" ELSE "returned None")]
  /\ UNCHANGED sessions
  /\ ThreadUnchanged

\* delete_session is called
ThreadDeleteSession(t) ==
  /\ threads[t].pc = "idle" /\ threads[t].calls < MaxCalls
  /\ \E session_id \in SessionIds :
       threads' = [threads EXCEPT ![t] =
                     [@ EXCEPT !.pc = "in", !.op = "delete_session",
                               !.arg = session_id]]
  /\ UNCHANGED sessions
  /\ ThreadUnchanged

\* delete_session: if session_id in self.sessions
ThreadTestIn(t) ==
  /\ threads[t].pc = "in"
  /\ threads' = [threads EXCEPT ![t] =
                   IF InTable(sessions, @.arg) THEN [@ EXCEPT !.pc = "del"]
                   ELSE IF @.op = "cleanup_old_sessions" THEN [@ EXCEPT !.pc = "for"]
                   ELSE Returned(@, "returned False")]
  /\ UNCHANGED sessions
  /\ ThreadUnchanged

\* delete_session: del self.sessions[session_id]; KeyError if the key has gone
ThreadDel(t) ==
  /\ threads[t].pc = "del"
  /\ IF InTable(sessions, threads[t].arg)
     THEN /\ sessions' = Deleted(sessions, threads[t].arg)
          /\ threads' = [threads EXCEPT ![t] =
                           IF @.op = "cleanup_old_sessions" THEN [@ EXCEPT !.pc = "for"]
                           ELSE Returned(@, "returned True")]
     ELSE /\ UNCHANGED sessions
          /\ threads' = [threads EXCEPT ![t] = Raised(@, "KeyError")]
  /\ ThreadUnchanged

\* cleanup_old_sessions is called: cutoff_time, and iter(self.sessions.items())
ThreadCleanup(t) ==
  /\ threads[t].pc = "idle" /\ threads[t].calls < MaxCalls
  /\ \E max_age_hours \in MaxAgeHours :
       threads' = [threads EXCEPT ![t] =
                     [@ EXCEPT !.pc = "iterate", !.op = "cleanup_old_sessions",
                               !.arg = 0, !.cutoff_time = clock - max_age_hours,
                               !.pos = 0, !.used = LiveCount(sessions),
                               !.len = LiveCount(sessions), !.to_delete = <<>>]]
  /\ UNCHANGED sessions
  /\ ThreadUnchanged

\* One next() of the dict iterator and the comprehension's test: RuntimeError
\* if the dict's size is not the one the iterator started with, or if it
\* finds an entry after yielding as many as the dict held
ThreadIterate(t) ==
  /\ threads[t].pc = "iterate"
  /\ LET thread == threads[t]
         sid == NextEntry(sessions, thread.pos)
     IN  threads' = [threads EXCEPT ![t] =
           IF LiveCount(sessions) # thread.used THEN Raised(thread, "RuntimeError")
           ELSE IF sid = 0 THEN [thread EXCEPT !.pc = "for"]
           ELSE IF thread.len = 0 THEN Raised(thread, "RuntimeError")
           ELSE [thread EXCEPT
                   !.pos = sid, !.len = @ - 1,
                   !.to_delete = IF sessions[sid].updated_at < thread.cutoff_time
                                 THEN Append(@, sid) ELSE @]]
  /\ UNCHANGED sessions
  /\ ThreadUnchanged

\* for sid in to_delete: self.delete_session(sid)
ThreadFor(t) ==
  /\ threads[t].pc = "for"
  /\ LET thread == threads[t]
     IN  threads' = [threads EXCEPT ![t] =
           IF thread.to_delete = <<>> THEN Returned(thread, "returned")
           ELSE [thread EXCEPT !.pc = "in", !.arg = Head(thread.to_delete),
                               !.to_delete = Tail(thread.to_delete)]]
  /\ UNCHANGED sessions
  /\ ThreadUnchanged

InitConcurrent ==
  /\ OtherIdle /\ clock = 0
  /\ sessions = <<>>
  /\ manager_call = NoCall
  /\ threads = [t \in 1..NumThreads |-> IdleThread]
  /\ lifecycle = NoLifecycle

NextConcurrent ==
  \/ \E t \in 1..NumThreads : ThreadCreateSession(t)
  \/ \E t \in 1..NumThreads : ThreadGetSession(t)
  \/ \E t \in 1..NumThreads : ThreadDeleteSession(t)
  \/ \E t \in 1..NumThreads : ThreadTestIn(t)
  \/ \E t \in 1..NumThreads : ThreadDel(t)
  \/ \E t \in 1..NumThreads : ThreadCleanup(t)
  \/ \E t \in 1..NumThreads : ThreadIterate(t)
  \/ \E t \in 1..NumThreads : ThreadFor(t)
  \/ HourPasses

SpecConcurrent == InitConcurrent /\ [][NextConcurrent]_vars

\* C13: under any interleaving of concurrent create_session, get_session,
\* delete_session and cleanup_old_sessions calls on one SessionManager no call
\* fails, and every session a completed create_session returned stays
\* retrievable until delete_session or the age sweep removes it.
C13_ConcurrentCallsNeverFail ==
  /\ [](\A t \in 1..Len(threads) : threads[t].pc # "raised")
  /\ [][ \A sid \in 1..Len(sessions) :
           (sessions[sid].alive /\ ~InTable(sessions', sid)) =>
             \E t \in 1..Len(threads) :
               /\ threads[t].pc = "del"
               /\ threads[t].arg = sid
               /\ threads[t].op \in {"delete_session", "cleanup_old_sessions"} ]_vars


-----------------------------------------------------------------------------
(* _categorize_emotion as a function of the combined score *)

\* Every combined score in [-1, 1], in hundredths
CombinedScores == -100..100

InitCategorize ==
  /\ pure_args \in [fn : {"categorize_emotion"}, sentiment_score : CombinedScores]
  /\ pure_result = [done |-> FALSE]
  /\ ChatIdle /\ DbEmpty /\ SessionFresh /\ ManagerEmpty

ApplyCategorize ==
  /\ pure_args.fn = "categorize_emotion"
  /\ ~pure_result.done
  /\ pure_result' = [done |-> TRUE,
                     value |-> categorize_emotion(pure_args.sentiment_score)]
  /\ UNCHANGED << pure_args, chat_vars, db_vars, session_vars, manager_vars >>

NextCategorize == ApplyCategorize

SpecCategorize == InitCategorize /\ [][NextCategorize]_vars

\* The seven categories in the claim's order, and the six boundaries
CategoryOrder ==
  << "very_negative", "negative", "slightly_negative", "neutral",
     "slightly_positive", "positive", "very_positive" >>
CategoryBoundaries == { -75, -25, -5, 5, 25, 75 }

\* A category's place in the order
CategoryRank(category) == CHOOSE i \in 1..Len(CategoryOrder) : CategoryOrder[i] = category

\* C14: _categorize_emotion maps every combined score in [-1, 1] to exactly one
\* of the seven categories, non-decreasing in the score in the order
\* VERY_NEGATIVE .. VERY_POSITIVE, the category changing only at -0.75, -0.25,
\* -0.05, 0.05, 0.25 and 0.75, and every category is reached.
C14_CategoriesPartitionTheScores ==
  (pure_args.fn = "categorize_emotion" /\ pure_result.done) =>
    LET score == pure_args.sentiment_score
        category == pure_result.value
    IN  /\ Cardinality({ i \in 1..Len(CategoryOrder) : CategoryOrder[i] = category }) = 1
        /\ \A lower \in CombinedScores :
             lower <= score =>
               CategoryRank(categorize_emotion(lower)) <= CategoryRank(category)
        /\ score < 100 =>
             (categorize_emotion(score + 1) # category <=> score \in CategoryBoundaries)
        /\ \A i \in 1..Len(CategoryOrder) :
             \E reached \in CombinedScores : categorize_emotion(reached) = CategoryOrder[i]

\* C14's case: the score -0.75, the last one that is VERY_NEGATIVE
C14_Witness ==
  /\ pure_args.fn = "categorize_emotion" /\ pure_result.done
  /\ pure_args.sentiment_score = -75
  /\ pure_result.value = "very_negative"


-----------------------------------------------------------------------------
(* _combine_sentiment_scores and _get_emotion_intensity as functions of the raw scores *)

\* Raw polarity scores, in hundredths: the multiples of 0.05 from -2 to 2.  Both
\* scorers keep within [-1, 1]; the values beyond are what the clamp is for.
RawScores == { 5 * k : k \in -40..40 }

InitCombine ==
  /\ pure_args \in [fn : {"combine_sentiment_scores"},
                    vader_compound : RawScores, textblob_polarity : RawScores]
  /\ pure_result = [done |-> FALSE]
  /\ ChatIdle /\ DbEmpty /\ SessionFresh /\ ManagerEmpty

\* combined_score and emotion_intensity as analyze_sentiment computes them
ApplyCombine ==
  /\ pure_args.fn = "combine_sentiment_scores"
  /\ ~pure_result.done
  /\ LET combined_score == combine_sentiment_scores(pure_args.vader_compound,
                                                    pure_args.textblob_polarity)
     IN  pure_result' = [done |-> TRUE,
                         combined_sentiment_score |-> combined_score,
                         emotion_intensity |-> get_emotion_intensity(combined_score)]
  /\ UNCHANGED << pure_args, chat_vars, db_vars, session_vars, manager_vars >>

NextCombine == ApplyCombine

SpecCombine == InitCombine /\ [][NextCombine]_vars

\* C15: for every pair of raw polarity scores A and B the combined score is
\* 0.6*A + 0.4*B clamped to [-1, 1], so it lies in [-1, 1], and the emotion
\* intensity, its absolute value, lies in [0, 1].
C15_CombinedScoreIsTheClampedBlend ==
  (pure_args.fn = "combine_sentiment_scores" /\ pure_result.done) =>
    LET blend100 == 60 * pure_args.vader_compound + 40 * pure_args.textblob_polarity
        combined == pure_result.combined_sentiment_score
        intensity == pure_result.emotion_intensity
    IN  /\ blend100 > 100 * 100 => combined = 100
        /\ blend100 < -100 * 100 => combined = -100
        /\ (-100 * 100 <= blend100 /\ blend100 <= 100 * 100) => 100 * combined = blend100
        /\ -100 <= combined /\ combined <= 100
        /\ intensity \in {combined, -combined}
        /\ 0 <= intensity /\ intensity <= 100

\* C15's case: a blend above 1 that the clamp brings back to 1
C15_Witness ==
  /\ pure_args.fn = "combine_sentiment_scores" /\ pure_result.done
  /\ pure_args.vader_compound = 200 /\ pure_args.textblob_polarity = 50
  /\ pure_result.combined_sentiment_score = 100
  /\ pure_result.emotion_intensity = 100


-----------------------------------------------------------------------------
(* analyze_sentiment as a function of its argument and the two scorers' answers *)

\* The calls analyze_sentiment makes, in order: none before the early return
analyze_sentiment_invokes(text) ==
  IF ~text.isstr \/ text.chars = <<>> THEN << "_get_default_sentiment" >>
  ELSE << "_detect_crisis_indicators", "vader.polarity_scores", "TextBlob",
          "_combine_sentiment_scores", "_detect_mental_state", "_categorize_emotion",
          "_get_emotion_intensity", "_get_timestamp" >>

InitAnalyze ==
  /\ pure_args \in [fn : {"analyze_sentiment"}, text : AnalyzerInputs,
                    vader_compound : VaderScores, textblob_polarity : TextBlobScores]
  /\ pure_result = [done |-> FALSE]
  /\ ChatIdle /\ DbEmpty /\ SessionFresh /\ ManagerEmpty

ApplyAnalyze ==
  /\ pure_args.fn = "analyze_sentiment"
  /\ ~pure_result.done
  /\ pure_result' = [done |-> TRUE,
                     value |-> analyze_sentiment(pure_args.text, pure_args.vader_compound,
                                                 pure_args.textblob_polarity),
                     invoked |-> analyze_sentiment_invokes(pure_args.text)]
  /\ UNCHANGED << pure_args, chat_vars, db_vars, session_vars, manager_vars >>

NextAnalyze == ApplyAnalyze

SpecAnalyze == InitAnalyze /\ [][NextAnalyze]_vars

Analyzed == pure_args.fn = "analyze_sentiment" /\ pure_result.done

\* The polarity scorers and the keyword scans
ScorersAndScans ==
  { "vader.polarity_scores", "TextBlob", "_detect_crisis_indicators", "_detect_mental_state" }

\* C16: analyze_sentiment called with None, an empty string or a value that is
\* not a string returns the fixed default result (combined score 0, category
\* neutral, intensity 0, the four mental-state flags false, crisis_detected
\* false, severity none) and calls neither polarity scorer nor a keyword scan.
C16_InvalidInputGivesTheDefault ==
  (Analyzed /\ (~pure_args.text.isstr \/ pure_args.text.chars = <<>>)) =>
    LET result == pure_result.value
    IN  /\ result.combined_sentiment_score = 0
        /\ result.emotion_category = "neutral"
        /\ result.emotion_intensity = 0
        /\ result.mental_state_detected.stress_indicators = FALSE
        /\ result.mental_state_detected.depression_indicators = FALSE
        /\ result.mental_state_detected.positive_indicators = FALSE
        /\ result.mental_state_detected.self_harm_indicators = FALSE
        /\ result.crisis_detected = FALSE
        /\ result.crisis_severity = "none"
        /\ \A i \in 1..Len(pure_result.invoked) : pure_result.invoked[i] \notin ScorersAndScans

\* C16's case: a value that is not a string, with scorers that would have
\* answered otherwise, got the default and no scorer was asked
C16_Witness ==
  /\ Analyzed
  /\ pure_args.text = msg_number
  /\ pure_args.vader_compound = -100
  /\ pure_result.value = get_default_sentiment
  /\ pure_result.invoked = << "_get_default_sentiment" >>

\* kw stands in text at position p
OccursAt(text, kw, p) == p >= 1 /\ p + Len(kw) - 1 <= Len(text) /\ \A j \in 1..Len(kw) : text[p + j - 1] = kw[j]

\* Some phrase of the list stands somewhere in the text
SomePhraseOccurs(text, phrases) ==
  \E i \in 1..Len(phrases) : \E p \in 1..Len(text) : OccursAt(text, phrases[i], p)

\* C17: crisis_detected is true if and only if some phrase of the crisis-phrase
\* list or of the self-harm keyword list occurs in the lowercased text, and
\* crisis_severity is critical exactly when crisis_detected is true and none
\* otherwise; high and moderate are never produced.
C17_CrisisIffSomePhraseOccurs ==
  (Analyzed /\ pure_args.text.isstr) =>
    LET result == pure_result.value
        text_lower == Lower(pure_args.text.chars)
    IN  /\ result.crisis_detected <=>
             (SomePhraseOccurs(text_lower, CRISIS_PHRASES)
                \/ SomePhraseOccurs(text_lower, SELF_HARM_KEYWORDS))
        /\ result.crisis_severity = IF result.crisis_detected THEN "critical" ELSE "none"
        /\ result.crisis_severity \notin { "high", "moderate" }

\* C17's case: a text with a self-harm keyword and no crisis phrase is critical
C17_Witness ==
  /\ Analyzed
  /\ pure_args.text = Str(msg_cutting)
  /\ ~SomePhraseOccurs(Lower(msg_cutting), CRISIS_PHRASES)
  /\ pure_result.value.crisis_detected
  /\ pure_result.value.crisis_severity = "critical"

\* kw stands in text at p as a token sequence of its own: no word character
\* right before it, none right after it
OccursAsToken(text, kw, p) ==
  /\ OccursAt(text, kw, p)
  /\ (p = 1 \/ ~IsWordChar(text[p - 1]))
  /\ (p + Len(kw) - 1 = Len(text) \/ ~IsWordChar(text[p + Len(kw)]))

SomeKeywordIsAToken(text, keywords) ==
  \E i \in 1..Len(keywords) : \E p \in 1..Len(text) : OccursAsToken(text, keywords[i], p)

\* C18: each of the four mental-state flags (stress, depression, positive,
\* self-harm) is true if and only if some keyword of its set occurs in the
\* normalized text as a separate token sequence delimited by word boundaries; a
\* keyword inside a longer token does not set the flag.
C18_FlagsAreWordBoundaryMatches ==
  (Analyzed /\ pure_args.text.isstr /\ pure_args.text.chars # <<>>) =>
    LET flags == pure_result.value.mental_state_detected
        text_lower == Strip(Lower(pure_args.text.chars))
    IN  /\ flags.stress_indicators <=> SomeKeywordIsAToken(text_lower, STRESS_KEYWORDS)
        /\ flags.depression_indicators <=> SomeKeywordIsAToken(text_lower, DEPRESSION_KEYWORDS)
        /\ flags.positive_indicators <=> SomeKeywordIsAToken(text_lower, POSITIVE_KEYWORDS)
        /\ flags.self_harm_indicators <=> SomeKeywordIsAToken(text_lower, SELF_HARM_KEYWORDS)


-----------------------------------------------------------------------------
(* _extract_topic and _match_emotion_precisely as functions of the message *)

\* Words the messages are made of: a keyword of each topic, some in capitals,
\* a school keyword that holds a job keyword ("homework"), and a word of no topic
TopicWords ==
  { <<"E","x","a","m">>,
    <<"j","o","b">>,
    <<"W","I","F","E">>,
    <<"m","o","m">>,
    <<"s","i","c","k">>,
    <<"r","e","n","t">>,
    <<"a","l","o","n","e">>,
    <<"c","l","a","s","s">>,
    <<"h","o","m","e","w","o","r","k">>,
    <<"h","e","l","l","o">> }

\* One word, or two with a blank between them
MessagesOf(words) == words \cup { a \o <<" ">> \o b : a \in words, b \in words }

InitTopic ==
  /\ pure_args \in [fn : {"extract_topic"}, user_message : MessagesOf(TopicWords)]
  /\ pure_result = [done |-> FALSE]
  /\ ChatIdle /\ DbEmpty /\ SessionFresh /\ ManagerEmpty

ApplyTopic ==
  /\ pure_args.fn = "extract_topic"
  /\ ~pure_result.done
  /\ pure_result' = [done |-> TRUE, value |-> extract_topic(pure_args.user_message)]
  /\ UNCHANGED << pure_args, chat_vars, db_vars, session_vars, manager_vars >>

NextTopic == ApplyTopic

SpecTopic == InitTopic /\ [][NextTopic]_vars

TopicOrder == << "exam", "job", "relationship", "family", "health", "money", "social", "school" >>

\* Some keyword of the i-th topic of the table occurs in the lowercased message
TopicMatches(user_message, i) == SomePhraseOccurs(Lower(user_message), topic_keywords[i].keywords)

\* C19: _extract_topic returns the first topic, in the table order exam, job,
\* relationship, family, health, money, social, school, with a keyword in the
\* lowercased message, and 'general' if no topic has one; when several topics
\* match, the earliest of the table wins wherever the keywords stand.
C19_FirstTopicInTableOrderWins ==
  (pure_args.fn = "extract_topic" /\ pure_result.done) =>
    LET user_message == pure_args.user_message
        matching == { i \in 1..Len(TopicOrder) : TopicMatches(user_message, i) }
    IN  /\ Len(topic_keywords) = Len(TopicOrder)
        /\ \A i \in 1..Len(TopicOrder) : topic_keywords[i].topic = TopicOrder[i]
        /\ matching = {} => pure_result.value = "general"
        /\ \A i \in matching :
             (\A j \in matching : i <= j) => pure_result.value = TopicOrder[i]

\* C19's case: a school keyword stands first in the message, an exam keyword
\* after it, and the topic is exam
C19_Witness ==
  /\ pure_args.fn = "extract_topic" /\ pure_result.done
  /\ pure_args.user_message = <<"c","l","a","s","s"," ","E","x","a","m">>
  /\ TopicMatches(pure_args.user_message, 1) /\ TopicMatches(pure_args.user_message, 8)
  /\ pure_result.value = "exam"

\* Words the messages are made of: a word of each group of the if-chain, some
\* in capitals, and a word of no group
EmotionWordsUsed ==
  { <<"A","n","x","i","o","u","s">>,
    <<"s","a","d">>,
    <<"A","N","G","R","Y">>,
    <<"f","e","a","r">>,
    <<"h","a","p","p","y">>,
    <<"h","e","l","l","o">> }

\* What the classifier hands over: no label, or a label
DetectedEmotions == { "", "sadness", "joy", "neutral" }

InitEmotion ==
  /\ pure_args \in [fn : {"match_emotion_precisely"}, detected_emotion : DetectedEmotions,
                    user_message : MessagesOf(EmotionWordsUsed)]
  /\ pure_result = [done |-> FALSE]
  /\ ChatIdle /\ DbEmpty /\ SessionFresh /\ ManagerEmpty

ApplyEmotion ==
  /\ pure_args.fn = "match_emotion_precisely"
  /\ ~pure_result.done
  /\ pure_result' = [done |-> TRUE,
                     value |-> match_emotion_precisely(pure_args.detected_emotion,
                                                       pure_args.user_message)]
  /\ UNCHANGED << pure_args, chat_vars, db_vars, session_vars, manager_vars >>

NextEmotion == ApplyEmotion

SpecEmotion == InitEmotion /\ [][NextEmotion]_vars

EmotionOrder == << "anxiety", "sadness", "anger", "fear", "joy" >>

\* Some word of the i-th group occurs in the message, in whatever case
EmotionMatches(user_message, i) == SomePhraseOccurs(Lower(user_message), emotion_words[i].words)

\* C20: if the message contains any of the listed emotion words, the resolved
\* emotion is the label of the first matching group in the order anxiety,
\* sadness, anger, fear, joy, whatever the classifier produced; otherwise it is
\* the classifier's label, or 'neutral' when that label is empty.
C20_LiteralEmotionWordOverrides ==
  (pure_args.fn = "match_emotion_precisely" /\ pure_result.done) =>
    LET user_message == pure_args.user_message
        detected_emotion == pure_args.detected_emotion
        matching == { i \in 1..Len(EmotionOrder) : EmotionMatches(user_message, i) }
    IN  /\ Len(emotion_words) = Len(EmotionOrder)
        /\ \A i \in 1..Len(EmotionOrder) : emotion_words[i].label = EmotionOrder[i]
        /\ \A i \in matching :
             (\A j \in matching : i <= j) => pure_result.value = EmotionOrder[i]
        /\ (matching = {} /\ detected_emotion # "") => pure_result.value = detected_emotion
        /\ (matching = {} /\ detected_emotion = "") => pure_result.value = "neutral"

\* C20's case: the classifier said joy, the message has a joy word and then an
\* anxiety word in capitals, and the emotion is anxiety
C20_Witness ==
  /\ pure_args.fn = "match_emotion_precisely" /\ pure_result.done
  /\ pure_args.detected_emotion = "joy"
  /\ pure_args.user_message = <<"h","a","p","p","y"," ","A","n","x","i","o","u","s">>
  /\ pure_result.value = "anxiety"


-----------------------------------------------------------------------------
(* classify_emotion as a function of the text and of what the pipeline does *)

\* Whether classify_emotion calls the pipeline: not without one, and not when
\* text[:512] raises before the call
classify_emotion_calls_pipeline(text, outcome) ==
  IF outcome.kind = "unloaded" THEN FALSE
  ELSE text.isstr

\* ClassifierOutcomes, and with them a pipeline that returns an empty list of
\* predictions and one that ranks a single label
PipelineOutcomes ==
  ClassifierOutcomes \cup
    { [kind |-> "no_predictions", top_emotions |-> <<>>],
      [kind |-> "predicted", top_emotions |-> << [label |-> "joy", score |-> 500] >>] }

InitClassify ==
  /\ pure_args \in [fn : {"classify_emotion"}, text : AnalyzerInputs, outcome : PipelineOutcomes]
  /\ pure_result = [done |-> FALSE]
  /\ ChatIdle /\ DbEmpty /\ SessionFresh /\ ManagerEmpty

ApplyClassify ==
  /\ pure_args.fn = "classify_emotion"
  /\ ~pure_result.done
  /\ pure_result' = [done |-> TRUE,
                     value |-> classify_emotion(pure_args.text, pure_args.outcome),
                     inference |-> classify_emotion_calls_pipeline(pure_args.text,
                                                                   pure_args.outcome)]
  /\ UNCHANGED << pure_args, chat_vars, db_vars, session_vars, manager_vars >>

NextClassify == ApplyClassify

SpecClassify == InitClassify /\ [][NextClassify]_vars

Classified == pure_args.fn = "classify_emotion" /\ pure_result.done

\* The fixed neutral default, confidences in thousandths
NeutralDefault ==
  [primary_emotion |-> "neutral", confidence |-> 0,
   all_emotions |-> << [emotion |-> "neutral", confidence |-> 1000] >>,
   is_crisis |-> FALSE]

\* C21: classify_emotion always returns a result: when the model failed to load
\* at construction, when the model returns no predictions, or when inference
\* raises, the result is exactly the fixed neutral default (primary_emotion
\* neutral, confidence 0.0, all_emotions [neutral 1.0], is_crisis false), and
\* after a load failure inference is never attempted.
C21_ClassifierFailuresGiveTheNeutralDefault ==
  Classified =>
    LET outcome == pure_args.outcome
        result == pure_result.value
    IN  /\ DOMAIN result = { "primary_emotion", "confidence", "all_emotions", "is_crisis" }
        /\ outcome.kind = "unloaded" => (result = NeutralDefault /\ ~pure_result.inference)
        /\ outcome.kind = "raises" => result = NeutralDefault
        /\ outcome.kind = "no_predictions" => result = NeutralDefault
        /\ outcome.top_emotions = <<>> => result = NeutralDefault

\* C21's case: no pipeline was loaded and the text holds a crisis keyword of the
\* classifier: the neutral default without inference
C21_Witness ==
  /\ Classified
  /\ pure_args.outcome.kind = "unloaded"
  /\ pure_args.text = Str(msg_want_to_die)
  /\ pure_result.value = NeutralDefault
  /\ ~pure_result.inference


-----------------------------------------------------------------------------
(* A failing persistence step *)

\* The persistence step of a call has just run and save_conversation reported False
SaveFailed == db_call.op = "save_conversation" /\ db_call.result = FALSE

\* The counter of a user, 0 for a user without a row
CounterOf(us, user_id) == IF user_id \in DOMAIN us THEN us[user_id].total_conversations ELSE 0

\* C22: when the persistence step fails, save_conversation reports the failure
\* as the value False instead of raising, process_user_message still returns
\* the complete in-memory result (response, emotion, confidence, sentiment,
\* is_crisis), and the failed call leaves no conversation row, no mood row and
\* no counter increment behind.
C22_FailedSaveIsReportedAndLeavesNothing ==
  /\ [][(pc = "persist" /\ pc' # "persist") =>
          /\ db_call'.op = "save_conversation"
          /\ db_call'.result \in BOOLEAN
          /\ pc' = "return"
          /\ returned'.kind # "raised"
          /\ db_call'.result = FALSE =>
               /\ conversations' = conversations
               /\ mood_tracking' = mood_tracking
               /\ \A u \in UserIds : CounterOf(users', u) = CounterOf(users, u)]_vars
  /\ [][(pc = "return" /\ pc' # "return") =>
          /\ returned'.kind = "result"
          /\ returned'.response = frame.response
          /\ returned'.emotion = frame.precise_emotion
          /\ returned'.emotion_confidence = frame.emotion_result.confidence
          /\ returned'.sentiment = frame.sentiment
          /\ returned'.is_crisis = frame.is_crisis
          /\ UNCHANGED << conversations, mood_tracking, users >>]_vars

\* C22's case: the save failed, the call returned its result all the same, and
\* the tables hold no row of the turn
C22_Witness ==
  /\ SaveFailed
  /\ pc = "idle"
  /\ returned.kind = "result"
  /\ returned.response = frame.response
  /\ returned.response # <<>>
  /\ conversations = <<>>
  /\ mood_tracking = <<>>
  /\ \A u \in UserIds : CounterOf(users, u) = 0


-----------------------------------------------------------------------------
(* Sessions created, ended, deleted, looked up and listed *)

\* The calls that change lifecycle record what they answered
Recorded(field, id) == lifecycle' = [lifecycle EXCEPT ![field] = @ \cup {id}]

ListingUnchanged ==
  UNCHANGED << pure_vars, chat_vars, session_vars, users, conversations,
               mood_tracking, chat_sessions, db_call >>

ListedCreate ==
  /\ Len(sessions) < MaxSessions
  /\ \E user_id \in UserIds : create_session(user_id)
  /\ Recorded("created", manager_call'.result)
  /\ ListingUnchanged

ListedEnd ==
  /\ \E session_id \in SessionIds : manager_end_session(session_id)
  /\ IF manager_call'.result = 1 THEN Recorded("ended", manager_call'.arg)
     ELSE UNCHANGED lifecycle
  /\ ListingUnchanged

ListedDelete ==
  /\ \E session_id \in SessionIds : delete_session(session_id)
  /\ IF manager_call'.result = 1 THEN Recorded("deleted", manager_call'.arg)
     ELSE UNCHANGED lifecycle
  /\ ListingUnchanged

ListedGet ==
  /\ \E session_id \in SessionIds : get_session(session_id)
  /\ UNCHANGED lifecycle
  /\ ListingUnchanged

GetAllSessions ==
  /\ get_all_sessions
  /\ UNCHANGED lifecycle
  /\ ListingUnchanged

InitListing == OtherIdle /\ clock = 0 /\ ManagerEmpty

NextListing ==
  \/ ListedCreate
  \/ ListedEnd
  \/ ListedDelete
  \/ ListedGet
  \/ GetAllSessions

SpecListing == InitListing /\ [][NextListing]_vars

\* The ids of the summaries of a listing, in its order
ListedIds(result) == [i \in 1..Len(result) |-> result[i].session_id]

\* C23: after any sequence of create_session, end_session and delete_session
\* calls, get_all_sessions returns exactly one summary for each session that
\* was created and has been neither ended nor deleted; an ended session is not
\* listed again, while get_session retrieves it until it is deleted.
C23_ListingIsTheCreatedNotEndedNotDeleted ==
  /\ manager_call.op = "get_all_sessions" =>
       LET ids == ListedIds(manager_call.result)
       IN  /\ \A i, j \in 1..Len(ids) : ids[i] = ids[j] => i = j
           /\ { ids[i] : i \in 1..Len(ids) }
                = lifecycle.created \ (lifecycle.ended \cup lifecycle.deleted)
           /\ \A i \in 1..Len(ids) : manager_call.result[i].session_active
  /\ manager_call.op = "get_session" =>
       /\ manager_call.arg \in lifecycle.ended \ lifecycle.deleted
            => manager_call.result = manager_call.arg
       /\ manager_call.arg \in lifecycle.deleted => manager_call.result = 0

\* C23's case: of two sessions created one was ended, and the listing holds
\* the other alone
C23_Witness ==
  /\ manager_call.op = "get_all_sessions"
  /\ lifecycle.created = {1, 2}
  /\ lifecycle.ended = {1}
  /\ lifecycle.deleted = {}
  /\ ListedIds(manager_call.result) = << 2 >>

\* C24: SessionManager.end_session and SessionManager.delete_session return
\* True if and only if the given id is in the session table at the time of the
\* call; for an id that is not in the table (never created, or already
\* deleted) they return False and leave the table and every session unchanged,
\* and get_session returns None for such an id.
C24_TrueIffInTheTable ==
  [][ LET in_table == lifecycle.created \ lifecycle.deleted
          session_id == manager_call'.arg
      IN  /\ manager_call'.op \in { "end_session", "delete_session" } =>
               /\ manager_call'.result = 1 <=> session_id \in in_table
               /\ manager_call'.result = 0 <=> session_id \notin in_table
               /\ session_id \notin in_table => sessions' = sessions
          /\ manager_call'.op = "get_session" =>
               /\ session_id \notin in_table => manager_call'.result = 0
               /\ session_id \in in_table => manager_call'.result = session_id ]_vars

\* C24's case: a session was created, ended and deleted, and a further
\* end_session of its id answers False
C24_Witness ==
  /\ 1 \in lifecycle.created /\ 1 \in lifecycle.ended /\ 1 \in lifecycle.deleted
  /\ manager_call = [op |-> "end_session", arg |-> 1, result |-> 0]


-----------------------------------------------------------------------------
(* Chat sessions started and ended, and the statistics read *)

\* How many start_chat_session and end_chat_session calls a run makes
MaxStatOps == 4

\* The sentiments the sessions start and end with, in hundredths: 0.2 apart,
\* so that a session improves, declines or stays; None is what a JSON null gives
StatSentiments == { Val(0), Val(20), Null }

\* f with x mapped to v
Put(f, x, v) == [y \in DOMAIN f \cup {x} |-> IF y = x THEN v ELSE f[y]]

StatsUnchanged ==
  UNCHANGED << pure_vars, chat_vars, session_vars, sessions, manager_call, threads >>

StatsStart ==
  /\ clock < MaxStatOps
  /\ \E user_id \in UserIds, initial_sentiment \in StatSentiments, ok \in BOOLEAN :
       start_chat_session(user_id, "sadness", initial_sentiment, ok)
  /\ UNCHANGED lifecycle
  /\ StatsUnchanged

\* end_chat_session of a row's id or of the next, unused one; what it returned
\* is recorded for the session
StatsEnd ==
  /\ clock < MaxStatOps
  /\ \E session_id \in 1..(Len(chat_sessions) + 1), final_sentiment \in StatSentiments, ok \in BOOLEAN :
       end_chat_session(session_id, Val("joy"), final_sentiment, ok)
  /\ lifecycle' =
       [lifecycle EXCEPT
          !.last_end = Put(@, db_call'.session_id, db_call'.result),
          !.last_answer = IF db_call'.result.isnone THEN @
                          ELSE Put(@, db_call'.session_id, db_call'.result)]
  /\ StatsUnchanged

GetMoodImprovementStats ==
  /\ \E user_id \in UserIds, ok \in BOOLEAN : get_mood_improvement_stats(user_id, ok)
  /\ UNCHANGED lifecycle
  /\ StatsUnchanged

InitStats == PureIdle /\ ChatIdle /\ DbEmpty /\ SessionFresh /\ ManagerEmpty

NextStats ==
  \/ StatsStart
  \/ StatsEnd
  \/ GetMoodImprovementStats

SpecStats == InitStats /\ [][NextStats]_vars

\* get_mood_improvement_stats has just answered with its dict
StatsRead == db_call.op = "get_mood_improvement_stats" /\ db_call.ok

\* The user's sessions for which the recorded answer has the flag set
SessionsAnswered(answers, user_id, flag) ==
  { i \in SessionsOf(chat_sessions, user_id) : i \in DOMAIN answers /\ answers[i][flag] }

\* The statistics, read against the answers recorded per session
StatsAgree(answers) ==
  LET user == db_call.user_id
      stats == db_call.result
      total == Cardinality(SessionsOf(chat_sessions, user))
  IN  /\ stats.total_sessions = total
      /\ stats.sessions_improved = Cardinality(SessionsAnswered(answers, user, "improved"))
      /\ stats.sessions_declined = Cardinality(SessionsAnswered(answers, user, "declined"))
      /\ IF total = 0 THEN stats.improvement_rate.num = 0
         ELSE stats.improvement_rate.num * total
                = 100 * stats.sessions_improved * stats.improvement_rate.den
      /\ stats.sessions_improved + stats.sessions_declined <= stats.total_sessions
      /\ 0 <= stats.improvement_rate.num
      /\ stats.improvement_rate.num <= 100 * stats.improvement_rate.den

\* C25 as stated: get_mood_improvement_stats(user) reports total_sessions as
\* the number of the user's sessions, sessions_improved and sessions_declined
\* as the numbers of those whose last end_chat_session returned improved,
\* respectively declined, and improvement_rate as 100 * sessions_improved /
\* total_sessions (0 without a session); so sessions_improved +
\* sessions_declined <= total_sessions and 0 <= improvement_rate <= 100.
C25_StatsCountTheLastEnd ==
  StatsRead => StatsAgree(lifecycle.last_end)

\* C25 as amended: the same, with sessions_improved and sessions_declined the
\* numbers of the user's sessions whose last end_chat_session that returned a
\* dict (an end that returns None stores nothing) returned improved,
\* respectively declined; a failing query gives the empty dict.
C25_StatsCountTheLastAnsweredEnd ==
  /\ StatsRead => StatsAgree(lifecycle.last_answer)
  /\ (db_call.op = "get_mood_improvement_stats" /\ ~db_call.ok) => db_call.result.empty

\* C25's case: a user with two sessions, one ended improved and one never
\* ended, reads a rate of 50
C25_Witness ==
  /\ StatsRead
  /\ db_call.result.total_sessions = 2
  /\ db_call.result.sessions_improved = 1
  /\ db_call.result.sessions_declined = 0
  /\ db_call.result.improvement_rate = Ratio(100, 2)
  /\ Cardinality(DOMAIN lifecycle.last_end) = 1


-----------------------------------------------------------------------------
(* _remove_repetition as a function of the generated text *)

\* The generated texts: every string of two letters, the period and the blank
\* up to this length
MaxTextLen == 5
TextAlphabet == { "a", "b", ".", " " }
GeneratedTexts == UNION { [1..n -> TextAlphabet] : n \in 0..MaxTextLen }

InitDedup ==
  /\ pure_args \in [fn : {"remove_repetition"}, text : GeneratedTexts]
  /\ pure_result = [done |-> FALSE]
  /\ ChatIdle /\ DbEmpty /\ SessionFresh /\ ManagerEmpty

\* The text deduplicated, and the result deduplicated again
ApplyDedup ==
  /\ pure_args.fn = "remove_repetition"
  /\ ~pure_result.done
  /\ LET result == remove_repetition(pure_args.text)
     IN  pure_result' = [done |-> TRUE, value |-> result,
                         again |-> remove_repetition(result)]
  /\ UNCHANGED << pure_args, chat_vars, db_vars, session_vars, manager_vars >>

NextDedup == ApplyDedup

SpecDedup == InitDedup /\ [][NextDedup]_vars

\* The sentences of a text: its pieces between '. ', none for the empty text
SentencesOf(text) == IF text = <<>> THEN <<>> ELSE SplitSentences(text)

\* The distinct non-empty stripped pieces of a text, each at its first place
DistinctSentences(text) ==
  LET pieces == SplitSentences(text)
      stripped == [i \in 1..Len(pieces) |-> Strip(pieces[i])]
      first == { i \in 1..Len(pieces) :
                   stripped[i] # <<>> /\ \A j \in 1..(i - 1) : stripped[j] # stripped[i] }
      nth(k) == CHOOSE i \in first : Cardinality({ j \in first : j < i }) = k - 1
  IN  [k \in 1..Cardinality(first) |-> stripped[nth(k)]]

\* C26: for every generated text, the result of _remove_repetition, split
\* again on '. ', contains no sentence string twice and lists the distinct
\* sentences of the input in first-seen order (the last one with the period
\* the result is ended by), and a non-empty result ends with a period;
\* _remove_repetition applied to its own result returns that result unchanged.
C26_ResultHasNoRepetitionAndIsAFixedPoint ==
  (pure_args.fn = "remove_repetition" /\ pure_result.done) =>
    LET result == pure_result.value
        listed == SentencesOf(result)
        distinct == DistinctSentences(pure_args.text)
        n == Len(listed)
    IN  /\ \A i, j \in 1..n : listed[i] = listed[j] => i = j
        /\ n = Len(distinct)
        /\ \A i \in 1..(n - 1) : listed[i] = distinct[i]
        /\ n > 0 => listed[n] \in { distinct[n], distinct[n] \o << "." >> }
        /\ result # <<>> => result[Len(result)] = "."
        /\ pure_result.again = result

-----------------------------------------------------------------------------
(* The crisis flag kept with a turn *)

\* What get_crisis_count(user_id) returns: COUNT(*) of the user's conversations
\* rows with is_crisis = 1; ok: the connection and the query succeed, else 0
crisis_count(rows, user_id, ok) ==
  IF ~ok THEN 0
  ELSE Cardinality({ i \in 1..Len(rows) : rows[i].user_id = user_id /\ rows[i].is_crisis = 1 })

\* How many persisted turns of the user were answered with a crisis response
CrisisAnswers(rows, user_id) ==
  Cardinality({ i \in 1..Len(rows) :
                  rows[i].user_id = user_id /\ rows[i].bot_response \in CrisisResponses })

\* A call has returned its result and its turn is the last conversations row
TurnStored ==
  /\ pc = "idle"
  /\ returned.kind = "result"
  /\ db_call.op = "save_conversation" /\ db_call.result
  /\ Len(conversations) = rows_at_call + 1

\* C27: the crisis flag stored with the persisted conversations row of a call
\* equals the is_crisis value the call returned, so get_crisis_count(user)
\* equals the number of the user's turns answered with the crisis response.
C27_StoredCrisisFlagIsTheReturnedOne ==
  TurnStored =>
    /\ conversations[Len(conversations)].is_crisis = (IF returned.is_crisis THEN 1 ELSE 0)
    /\ \A user_id \in UserIds :
         crisis_count(conversations, user_id, TRUE) = CrisisAnswers(conversations, user_id)

\* C27's failing case: the row says crisis while the caller was told there is
\* none and got a generated answer
C27_FlagsDiffer ==
  /\ TurnStored
  /\ conversations[Len(conversations)].is_crisis = 1
  /\ ~returned.is_crisis
  /\ returned.response \notin CrisisResponses
  /\ crisis_count(conversations, frame.user_id, TRUE) = 1

-----------------------------------------------------------------------------
(* The counter of a user and the rows of a user *)

\* How many rows of a table belong to the user
RowsOf(rows, user_id) == Cardinality({ i \in 1..Len(rows) : rows[i].user_id = user_id })

\* C28: in every reachable state of the store, after any sequence of successful
\* and failed save_conversation calls, the total_conversations counter of each
\* user equals the number of the user's conversations rows, which equals the
\* number of the user's mood_tracking rows.
C28_CounterIsTheNumberOfRows ==
  /\ \A user_id \in DOMAIN users :
       users[user_id].total_conversations = RowsOf(conversations, user_id)
  /\ \A user_id \in UserIds :
       RowsOf(conversations, user_id) = RowsOf(mood_tracking, user_id)

\* C28's failing case: a user has a users row whose counter is below the number
\* of the user's conversations rows
C28_CounterBehind ==
  \E user_id \in DOMAIN users :
    /\ db_call.op = "save_conversation" /\ db_call.result
    /\ users[user_id].total_conversations = 1
    /\ RowsOf(conversations, user_id) = 2
    /\ RowsOf(mood_tracking, user_id) = 2

-----------------------------------------------------------------------------
(* get_crisis_response with the keyword list the program ships *)

\* Two more messages: a keyword in capitals, and a keyword inside a longer word
msg_dead_tired == <<"D","E","A","D"," ","t","i","r","e","d">>  \* DEAD tired
msg_harmless == <<"H","a","r","m","l","e","s","s"," ","f","u","n">>  \* Harmless fun

\* The str messages the handler is called with
CrisisTexts == TextsOf(AnalyzerInputs) \cup { msg_dead_tired, msg_harmless }

\* Combined sentiment scores, in hundredths, over the whole range and next to
\* the -0.7 boost line
CrisisScores == {-100, -75, -71, -70, -69, 0, 60, 100}

InitCrisisResponse ==
  /\ pure_args \in [fn : {"get_crisis_response"},
                    text : CrisisTexts,
                    sentiment_score : CrisisScores]
  /\ pure_result = [done |-> FALSE]
  /\ ChatIdle /\ DbEmpty /\ SessionFresh /\ ManagerEmpty

\* get_crisis_response(text, sentiment_score), with what its detect_crisis
\* call returned
ApplyCrisisResponse ==
  /\ pure_args.fn = "get_crisis_response"
  /\ ~pure_result.done
  /\ pure_result' = [done |-> TRUE,
                     detection |-> detect_crisis(pure_args.text, pure_args.sentiment_score),
                     value |-> get_crisis_response(pure_args.text,
                                                   pure_args.sentiment_score)]
  /\ UNCHANGED << pure_args, chat_vars, db_vars, session_vars, manager_vars >>

NextCrisisResponse == ApplyCrisisResponse

SpecCrisisResponse == InitCrisisResponse /\ [][NextCrisisResponse]_vars

\* C29: with the keyword list the program ships, detect_crisis reports
\* is_crisis exactly when some keyword occurs in the lowercased message,
\* whatever the sentiment score; its severity is one of 0, 0.9 and 1.0; and
\* every crisis response of get_crisis_response is the highest urgency tier, so
\* the two lower tiers are never selected.
C29_ShippedListAlwaysGivesTheHighestTier ==
  (pure_args.fn = "get_crisis_response" /\ pure_result.done) =>
    LET detection == pure_result.detection
        out == pure_result.value
    IN  /\ detection.is_crisis <=> SomePhraseOccurs(Lower(pure_args.text), CRISIS_KEYWORDS)
        /\ detection.severity \in {0, 90, 100}
        /\ out.is_crisis = detection.is_crisis
        /\ out.is_crisis => out.response = CrisisTemplate("IMMEDIATE SUPPORT NEEDED")
        /\ ~out.is_crisis => out.response = <<>>
        /\ out.response \notin { CrisisTemplate("URGENT SUPPORT RECOMMENDED"),
                                 CrisisTemplate("SUPPORT AVAILABLE") }

\* C29's case: a keyword in capitals matched at a score above the boost line,
\* the severity is 0.9 and the response is the highest tier
C29_Witness ==
  /\ pure_args.fn = "get_crisis_response" /\ pure_result.done
  /\ pure_args.text = msg_dead_tired
  /\ pure_args.sentiment_score = 60
  /\ pure_result.detection.severity = 90
  /\ pure_result.value.is_crisis
  /\ pure_result.value.response = CrisisTemplate("IMMEDIATE SUPPORT NEEDED")

-----------------------------------------------------------------------------
(* get_user_summary after a sequence of processed messages *)

\* How many process_user_message calls a run makes
MaxTurns == 6

\* get_user_context's history = self.get_user_history(user_id, limit=5)
context_history_limit == 5

\* get_user_context(user_id), the entries get_user_summary's counts come from;
\* ok: the connections and the queries succeed, else the queries' defaults
get_user_context(rows, user_id, ok) ==
  LET history == user_history(rows, user_id, context_history_limit, ok)
  IN  [recent_conversations |-> history,
       crisis_incidents |-> crisis_count(rows, user_id, ok),
       conversation_count |-> Len(history)]

\* HybridMentalHealthChatbot.get_user_summary(user_id), its two counts
get_user_summary(rows, user_id, ok) ==
  LET context == get_user_context(rows, user_id, ok)
  IN  [total_conversations |-> context.conversation_count,
       crisis_incidents |-> context.crisis_incidents]

\* process_user_message(user_id, user_message) from its first statement to its
\* return, for a str message; the classifier predicts, the scorers answer
\* 0.5 and 0.0, the generator generates; save_ok: the save succeeds
ProcessUserMessage ==
  /\ clock < MaxTurns
  /\ \E user_id \in UserIds, save_ok \in BOOLEAN :
       LET user_message == Str(msg_sad_exam)
           emotion_result ==
             classify_emotion(user_message,
                              [kind |-> "predicted",
                               top_emotions |-> << [label |-> "sadness", score |-> 912] >>])
           sentiment == analyze_sentiment(user_message, 50, 0)
           topic == extract_topic(user_message.chars)
           precise_emotion == match_emotion_precisely(emotion_result.primary_emotion,
                                                      user_message.chars)
           crisis == get_crisis_response(user_message.chars,
                                         sentiment.combined_sentiment_score)
           response == IF crisis.is_crisis THEN crisis.response
                       ELSE generate_response(user_message.chars, precise_emotion,
                                              topic, "generated")
       IN  /\ save_conversation(user_id, user_message, response, emotion_result,
                                sentiment, TRUE, save_ok)
           /\ returned' = [kind |-> "result",
                           response |-> response,
                           emotion |-> precise_emotion,
                           emotion_confidence |-> emotion_result.confidence,
                           sentiment |-> sentiment,
                           is_crisis |-> crisis.is_crisis]
  /\ UNCHANGED << pc, frame, steps, t5_calls, rows_at_call, pure_vars, session_vars, manager_vars >>

\* get_user_summary(user_id): reads, changes no table
GetUserSummary ==
  /\ \E user_id \in UserIds, ok \in BOOLEAN :
       returned' = [kind |-> "summary", user_id |-> user_id, ok |-> ok,
                    value |-> get_user_summary(conversations, user_id, ok)]
  /\ UNCHANGED << pc, frame, steps, t5_calls, rows_at_call, pure_vars, db_vars, session_vars, manager_vars >>

InitSummary == PureIdle /\ ChatIdle /\ DbEmpty /\ SessionFresh /\ ManagerEmpty

NextSummary ==
  \/ ProcessUserMessage
  \/ GetUserSummary

SpecSummary == InitSummary /\ [][NextSummary]_vars

\* get_user_summary has just answered from a database it could read
SummaryRead == returned.kind = "summary" /\ returned.ok

\* C30: after any sequence of processed messages, the total_conversations value
\* get_user_summary(user) reports equals the number of conversation turns
\* persisted for the user.
C30_SummaryCountsThePersistedTurns ==
  SummaryRead =>
    returned.value.total_conversations = RowsOf(conversations, returned.user_id)

\* C30's failing case: six turns of the user are persisted and the summary
\* reports five
C30_SummaryStopsAtFive ==
  /\ SummaryRead
  /\ RowsOf(conversations, returned.user_id) = 6
  /\ returned.value.total_conversations = 5

=============================================================================
